---- MODULE Spec2Model ----
(***************************************************************************)
(* Model of the Chat class of iris-lib (private channels over a Gun graph  *)
(* store): secret and channel-id derivation, addPub / send / save, the     *)
(* inbound subscriptions, and the invite-link exchange.                    *)
(*                                                                         *)
(* Every value of the program (strings, ciphertexts, hashes, store paths)  *)
(* is a sequence of strings, so that values of different kinds can be      *)
(* compared.  An async function is a task record whose pc names the await  *)
(* it is suspended on; the synchronous code between two awaits is one      *)
(* step.  An await on a value that is already there (a cache hit) resumes  *)
(* in the same step.                                                       *)
(***************************************************************************)
EXTENDS Integers, Sequences, FiniteSets, TLC

\* ---------------------------------------------------------------- bounds
MaxCalls == 2        \* send() and setMyMsgsLastSeenTime() calls of the single Conversation
MaxGroupSends == 1   \* send() calls of the group Conversation
MaxPairSends == 2    \* send() calls of A in the two-party exchange
MaxChats == 2        \* Conversations constructed when only ids are derived
MaxReplay == 2       \* re-deliveries of request values to one chatRequests listener
MaxSaves == 2        \* save() calls on the Conversation besides the constructor's
MaxOnlineCalls == 3  \* setOnline() calls
MaxElapsed == 7      \* seconds the clock advances while the heartbeat is followed
MaxUpdates == 2      \* heartbeats of the watched identity
MaxWatch == 12       \* seconds the clock advances while an identity is watched
MaxAdds == 1         \* addPub() calls made on a constructed Conversation
MaxValid == 2        \* send() calls made while garbage is written to the channels
MaxLinkLen == 3      \* characters in the three fields of a formatted link, in all
MaxDeletes == 1      \* deleteChat() calls
MaxSeen == 2         \* setMyMsgsLastSeenTime() calls while the receipts are watched

\* ------------------------------------------------------------ identities
Users == {"A", "B", "C"}

Rank(u) == CASE u = "A" -> 1 [] u = "B" -> 2 [] u = "C" -> 3 [] OTHER -> 4

\* key.epub of the keypair of u
Epub(u) == <<"epub", u>>

\* undefined / null in a JS object slot, and an absent store node
NoVal == <<>>
\* a null put into the store
Null == <<"null">>

\* ------------------------------------------------------------- JS values
Undefined == [type |-> "undefined", v |-> <<>>]
Str(s) == [type |-> "string", v |-> <<s>>]
Obj(time, author, text) == [type |-> "object", v |-> <<time, author, text>>]
JSNull == [type |-> "null", v |-> <<>>]

\* the typeof operator: null is reported as an object
typeof(x) == IF x.type = "null" THEN "object" ELSE x.type

Times == {"t1", "t2"}

\* JSON.stringify of a structured message
JSONstringify(m) == <<"{">> \o m.v \o <<"}">>

\* JSON.parse as SEA.decrypt applies it: an object literal parses to an
\* object, the text null to null, any other one-piece text stays a string
JSONparse(p) ==
  IF Len(p) >= 2 /\ p[1] = "{" /\ p[Len(p)] = "}"
  THEN [type |-> "object", v |-> SubSeq(p, 2, Len(p) - 1)]
  ELSE IF p = Null THEN JSNull
  ELSE IF Len(p) = 1 THEN Str(p[1]) ELSE Undefined

\* ---------------------------------------------------------------- Gun.SEA
\* Gun.SEA.secret(epub, pair): Diffie-Hellman, the same for both parties
SEAsecret(epub, u) ==
  IF Rank(epub[2]) <= Rank(u) THEN <<"dh", epub[2], u>> ELSE <<"dh", u, epub[2]>>

\* Gun.SEA.work(data, null, null, {name: 'SHA-256'})
SEAwork(data) == <<"sha256">> \o data

\* Gun.SEA.encrypt(data, secret)
SEAencrypt(plain, secret) == <<"SEA">> \o secret \o plain

\* Gun.SEA.decrypt(data, secret): undefined unless data is a ciphertext
\* under that secret
SEAdecrypt(data, secret) ==
  IF Len(secret) = 3 /\ Len(data) > 4 /\ SubSeq(data, 1, 4) = <<"SEA">> \o secret
  THEN JSONparse(SubSeq(data, 5, Len(data)))
  ELSE Undefined

\* ------------------------------------------------------------- the store
Get(g, path) == IF path \in DOMAIN g THEN g[path] ELSE NoVal

Put(g, path, val) ==
  [p \in DOMAIN g \cup {path} |-> IF p = path THEN val ELSE g[p]]

EpubPath(u) == <<u, "epub">>
ChatPath(u, id) == <<u, "chats">> \o id
MsgPath(u, id, k) == ChatPath(u, id) \o <<"msgs", k>>
LatestPath(u, id) == ChatPath(u, id) \o <<"latestMsg">>
SeenPath(u, id) == ChatPath(u, id) \o <<"msgsLastSeenTime">>
PubPath(u, id) == ChatPath(u, id) \o <<"pub">>

\* util.gunOnceDefined(gun.user(pub).get('epub')): resolves once defined
gunOnceDefined(g, pub) == Get(g, EpubPath(pub)) # NoVal

VARIABLES
  gun,      \* the graph store: path -> value
  chats,    \* the Chat instances, in construction order
  tasks,    \* the suspended async calls
  sendLog,  \* the send() calls issued, in order: [c, n, msg]
  seenLog,  \* the setMyMsgsLastSeenTime() calls issued, in order: [c, n, time]
  links,    \* the URLs createChatLink returned, in order
  listeners, \* the getMyChatLinks calls: their closures and subscriptions
  clock,    \* Gun.state(): the store clock, in milliseconds
  heart,    \* the presence heartbeat of the local store (gun.setOnlineInterval)
  observers, \* the getOnline calls: their closures
  listings, \* the getChats calls: their closures
  formatted \* the formatChatLink calls made directly: [urlRoot, pub, sharedSecret, linkId, url]

\* what the operations on Conversations and invite links leave alone
timeVars == <<clock, heart, observers, listings, formatted>>

vars == <<gun, chats, tasks, sendLog, seenLog, links, listeners, clock, heart, observers, listings,
         formatted>>

\* the reading of the store clock when the model starts, in milliseconds
Epoch == 40000

\* no presence call and no getChats call has been made
InitTime ==
  /\ clock = Epoch
  /\ heart = [interval |-> 0,   \* gun.setOnlineInterval, 0 when undefined
              armed |-> {},     \* the interval timers that are set: [id, due]
              made |-> 0,       \* timers created so far
              log |-> <<>>]     \* the setOnline calls and the writes of update()
  /\ observers = <<>>
  /\ listings = <<>>
  /\ formatted = <<>>

\* ---------------------------------------------------------------- tasks
Task(op, c, n, keys, i, pc) ==
  [op |-> op, c |-> c, n |-> n, keys |-> keys, i |-> i, pc |-> pc,
   msg |-> Undefined, sec |-> NoVal, enc |-> NoVal, id |-> NoVal]

\* the participant a task is working on
TPub(t) == t.keys[t.i]

NoSecrets == [p \in Users |-> NoVal]

\* constructor, lines 19-27
EmptyChat(u, onMessage) ==
  [key |-> u, keys |-> <<>>, secrets |-> NoSecrets,
   ourSecretChatIds |-> NoSecrets, theirSecretChatIds |-> NoSecrets,
   onMessage |-> onMessage, subs |-> {}, fired |-> {}, received |-> {},
   linkSubs |-> {},   \* the encryptedSharedKey subscriptions of line 41
   from |-> NoVal,    \* the chat request getMyChatLinks built this instance for
   saves |-> 0,       \* save() calls made on the instance after construction
   adds |-> 0,        \* addPub() calls made on the instance after construction
   watch |-> {},      \* the .on subscriptions of getLatestMsg, get*MsgsLastSeenTime
   pending |-> {},    \* updates the store has yet to hand to those subscriptions
   calls |-> <<>>,    \* the invocations of their callbacks, in order
   myMsgsLastSeenTime |-> Undefined, theirMsgsLastSeenTime |-> Undefined]

InSeq(s, x) == \E i \in 1..Len(s) : s[i] = x

Res(ch, g, t) == [ch |-> ch, g |-> g, t |-> t]

\* --------------------------------------------------- channel-id derivation
\* the hash of the secret alone, the same in both directions
OurSecretChatIdNoSuffix(secret, key, pub) == SEAwork(secret)

\* getOurSecretChatId, line 118: the hash of secret + pub
OurSecretChatId(secret, key, pub) == SEAwork(secret \o <<pub>>)

\* the 'their' id suffixed with the participant's key, as the 'our' id is
TheirSecretChatIdWithPub(secret, key, pub) == SEAwork(secret \o <<pub>>)

\* getTheirSecretChatId, line 126: the hash of secret + this.key.pub
TheirSecretChatId(secret, key, pub) == SEAwork(secret \o <<key>>)

\* getOurSecretChatId / getTheirSecretChatId on a cache miss, up to the first
\* await: getSecret returns the cached secret, or suspends on the epub lookup
CallGetId(ch, t, dir) ==
  IF ch.secrets[TPub(t)] # NoVal
  THEN [t EXCEPT !.pc = dir \o "_work", !.sec = ch.secrets[TPub(t)]]
  ELSE [t EXCEPT !.pc = dir \o "_secret"]

\* ------------------------------------------------- send / read receipt loop
\* send lines 243-244 and setMyMsgsLastSeenTime lines 169-170: the head of
\* iteration i, up to the await of getSecret or of SEA.encrypt
SendIter(ch, g, t, i) ==
  IF i > Len(t.keys) THEN Res(ch, g, [t EXCEPT !.pc = "done"])
  ELSE IF ch.secrets[t.keys[i]] # NoVal
       THEN Res(ch, g, [t EXCEPT !.i = i, !.pc = "encrypt",
                                 !.sec = ch.secrets[t.keys[i]]])
       ELSE Res(ch, g, [t EXCEPT !.i = i, !.pc = "secret"])

\* save that also resets the latest-message slot of the channel
SaveWriteResets(g, u, id) == Put(Put(g, MsgPath(u, id, "a"), Null), LatestPath(u, id), Null)

\* the write of save, line 258
SaveWrite(g, u, id) == Put(g, MsgPath(u, id, "a"), Null)

\* save lines 256-258: iterations run on while the channel id is cached
RECURSIVE SaveIter(_, _, _, _)
SaveIter(ch, g, t, i) ==
  IF i > Len(t.keys) THEN Res(ch, g, [t EXCEPT !.pc = "done"])
  ELSE IF ch.ourSecretChatIds[t.keys[i]] # NoVal
       THEN SaveIter(ch, SaveWrite(g, ch.key, ch.ourSecretChatIds[t.keys[i]]), t, i + 1)
       ELSE Res(ch, g, CallGetId(ch, [t EXCEPT !.i = i], "our"))

\* send with the slot named after the author instead of the time
SendWritesByAuthor(g, u, id, msg, enc) ==
  Put(Put(g, MsgPath(u, id, msg.v[2]), enc), LatestPath(u, id), enc)

\* send putting the serialized message itself
SendWritesPlain(g, u, id, msg, enc) ==
  Put(Put(g, MsgPath(u, id, msg.v[1]), JSONstringify(msg)), LatestPath(u, id), JSONstringify(msg))

\* send without the second put
SendWritesNoLatest(g, u, id, msg, enc) == Put(g, MsgPath(u, id, msg.v[1]), enc)

\* the writes of send, lines 246-247
SendWrites(g, u, id, msg, enc) ==
  Put(Put(g, MsgPath(u, id, msg.v[1]), enc), LatestPath(u, id), enc)

\* the write of setMyMsgsLastSeenTime, line 172
\* a setMyMsgsLastSeenTime that drops its write
SeenWritesSkipped(g, u, id, enc) == g

\* setMyMsgsLastSeenTime line 172
SeenWrites(g, u, id, enc) == Put(g, SeenPath(u, id), enc)

\* ------------------------------------------- standing .on subscriptions
\* the slot a getMyMsgsLastSeenTime (183), getTheirMsgsLastSeenTime (199) or
\* getLatestMsg (151) subscription listens to
WatchSub(ch, op, pub, id) ==
  [kind |-> op, pub |-> pub,
   path |-> CASE op = "getMy" -> SeenPath(ch.key, id)
              [] op = "getTheir" -> SeenPath(pub, id)
              [] OTHER -> LatestPath(ch.key, id)]

\* .on(callback): the subscription is registered, and the store hands over
\* the value the slot holds already
Subscribe(ch, g, op, pub, id) ==
  LET sub == WatchSub(ch, op, pub, id)
  IN [ch EXCEPT !.watch = @ \cup {sub},
                !.pending = @ \cup (IF Get(g, sub.path) # NoVal
                                    THEN {[sub |-> sub, data |-> Get(g, sub.path)]} ELSE {})]

\* the loops of lines 149-151, 181-183 and 197-199: iterations run on while
\* the channel id is cached
RECURSIVE WatchIter(_, _, _, _)
WatchIter(ch, g, t, i) ==
  IF i > Len(t.keys) THEN Res(ch, g, [t EXCEPT !.pc = "done"])
  ELSE LET dir == IF t.op = "getTheir" THEN "their" ELSE "our"
           id == IF dir = "their" THEN ch.theirSecretChatIds[t.keys[i]]
                 ELSE ch.ourSecretChatIds[t.keys[i]]
       IN IF id # NoVal
          THEN WatchIter(Subscribe(ch, g, t.op, t.keys[i], id), g, t, i + 1)
          ELSE Res(ch, g, CallGetId(ch, [t EXCEPT !.i = i], dir))

\* a subscription that stops listening after its first value
ListeningOnce(ch, sub) ==
  /\ sub \in ch.watch
  /\ \A e \in ch.pending : e.sub # sub
  /\ \A i \in 1..Len(ch.calls) : ch.calls[i].kind # sub.kind \/ ch.calls[i].pub # sub.pub

\* .on: a registered subscription is handed every update
Listening(ch, sub) == sub \in ch.watch

\* the store went from g0 to g1: every listening subscription whose slot
\* changed is due the new value
Notify(cs, g0, g1) ==
  [c \in DOMAIN cs |->
     [cs[c] EXCEPT !.pending = @ \cup
        {[sub |-> x, data |-> Get(g1, x.path)] :
           x \in {y \in cs[c].watch : Listening(cs[c], y) /\ Get(g1, y.path) # Get(g0, y.path)}}]]

\* the caller's code after `await this.getOurSecretChatId(pub)` returned id
OurIdReady(ch, g, t, id) ==
  CASE t.op = "send" -> SendIter(ch, SendWrites(g, ch.key, id, t.msg, t.enc), t, t.i + 1)
    [] t.op = "seen" -> SendIter(ch, SeenWrites(g, ch.key, id, t.enc), t, t.i + 1)
    [] t.op = "save" -> SaveIter(ch, SaveWrite(g, ch.key, id), t, t.i + 1)
    [] t.op \in {"getMy", "getLatest"} ->
         WatchIter(Subscribe(ch, g, t.op, TPub(t), id), g, t, t.i + 1)
    [] OTHER -> Res(ch, g, [t EXCEPT !.pc = "encrypt", !.id = id])

\* what send / setMyMsgsLastSeenTime hand to SEA.encrypt
Plain(t) == IF t.op = "send" THEN JSONstringify(t.msg) ELSE t.msg.v

\* send line 244-245 / setMyMsgsLastSeenTime 170-171 once SEA.encrypt resolved
AfterEncrypt(ch, g, t) ==
  LET t1 == [t EXCEPT !.enc = SEAencrypt(Plain(t), t.sec)]
  IN IF ch.ourSecretChatIds[TPub(t)] # NoVal
     THEN OurIdReady(ch, g, t1, ch.ourSecretChatIds[TPub(t)])
     ELSE Res(ch, g, CallGetId(ch, t1, "our"))

\* ------------------------------------------------------------------ addPub
OurSub(ch, pub, id) == [w |-> ch.key, id |-> id, pub |-> pub, self |-> TRUE]

\* the inbound subscription placed in the local namespace
TheirSubLocal(ch, pub, id) == [w |-> ch.key, id |-> id, pub |-> pub, self |-> FALSE]

TheirSub(ch, pub, id) == [w |-> pub, id |-> id, pub |-> pub, self |-> FALSE]

\* addPub lines 222-225, once the 'their' channel id is known
AddPubSubscribe(ch, g, t, theirId) ==
  Res([ch EXCEPT !.subs = @ \cup {TheirSub(ch, TPub(t), theirId), OurSub(ch, TPub(t), t.id)}],
      g, [t EXCEPT !.pc = "done"])

\* addPub lines 217-225, once mySecret and the encryption of pub resolved
AddPubWritten(ch, g, t) ==
  LET mySecret == SEAsecret(Epub(ch.key), ch.key)
      g1 == Put(g, PubPath(ch.key, t.id), SEAencrypt(<<TPub(t)>>, mySecret))
  IN IF TPub(t) # ch.key
     THEN IF ch.theirSecretChatIds[TPub(t)] # NoVal
          THEN AddPubSubscribe(ch, g1, t, ch.theirSecretChatIds[TPub(t)])
          ELSE Res(ch, g1, CallGetId(ch, t, "their"))
     ELSE Res([ch EXCEPT !.subs = @ \cup {OurSub(ch, TPub(t), t.id)}],
              g1, [t EXCEPT !.pc = "done"])

\* the caller's code after `await this.getTheirSecretChatId(pub)` returned id
TheirIdReady(ch, g, t, id) ==
  IF t.op = "getTheir"
  THEN WatchIter(Subscribe(ch, g, t.op, TPub(t), id), g, t, t.i + 1)
  ELSE AddPubSubscribe(ch, g, t, id)

\* ------------------------------------------------------------ the actions
Apply(t, r) ==
  /\ chats' = Notify([chats EXCEPT ![t.c] = r.ch], gun, r.g)
  /\ gun' = r.g
  /\ tasks' = (tasks \ {t}) \cup (IF r.t.pc = "done" THEN {} ELSE {r.t})

\* getSecret lines 72-74: the epub lookup and SEA.secret resolve, the secret
\* is cached, and the caller goes on to its next await
ResumeGetSecret(t) ==
  /\ t.pc \in {"secret", "our_secret", "their_secret"}
  /\ gunOnceDefined(gun, TPub(t))
  /\ LET ch == chats[t.c]
         secret == SEAsecret(Get(gun, EpubPath(TPub(t))), ch.key)
         ch1 == [ch EXCEPT !.secrets[TPub(t)] = secret]
         t1 == CASE t.pc = "our_secret" -> [t EXCEPT !.pc = "our_work", !.sec = secret]
                 [] t.pc = "their_secret" -> [t EXCEPT !.pc = "their_work", !.sec = secret]
                 [] t.op = "getSecret" -> [t EXCEPT !.pc = "done"]
                 [] OTHER -> [t EXCEPT !.pc = "encrypt", !.sec = secret]
     IN Apply(t, Res(ch1, gun, t1))
  /\ UNCHANGED <<sendLog, seenLog, links, listeners, timeVars>>

\* getOurSecretChatId line 118-120 / getTheirSecretChatId 126-128: SEA.work
\* resolves, the id is cached and returned
ResumeWork(t) ==
  /\ t.pc \in {"our_work", "their_work"}
  /\ LET ch == chats[t.c]
     IN IF t.pc = "our_work"
        THEN LET id == OurSecretChatId(t.sec, ch.key, TPub(t))
             IN Apply(t, OurIdReady([ch EXCEPT !.ourSecretChatIds[TPub(t)] = id], gun, t, id))
        ELSE LET id == TheirSecretChatId(t.sec, ch.key, TPub(t))
             IN Apply(t, TheirIdReady([ch EXCEPT !.theirSecretChatIds[TPub(t)] = id], gun, t, id))
  /\ UNCHANGED <<sendLog, seenLog, links, listeners, timeVars>>

\* SEA.encrypt resolves in send (244), setMyMsgsLastSeenTime (170), addPub (218)
ResumeEncrypt(t) ==
  /\ t.pc = "encrypt"
  /\ IF t.op = "addPub"
     THEN Apply(t, AddPubWritten(chats[t.c], gun, t))
     ELSE Apply(t, AfterEncrypt(chats[t.c], gun, t))
  /\ UNCHANGED <<sendLog, seenLog, links, listeners, timeVars>>

\* Object.keys(this.secrets) after the addPub calls of the constructor
RECURSIVE Dedup(_)
Dedup(s) ==
  IF s = <<>> THEN <<>>
  ELSE LET d == Dedup(SubSeq(s, 1, Len(s) - 1))
       IN IF InSeq(d, s[Len(s)]) THEN d ELSE Append(d, s[Len(s)])

\* the tasks a constructor leaves behind: per participant the getSecret of
\* addPub line 214 and addPub itself suspended in getOurSecretChatId (216),
\* and save (line 66) suspended in its first getOurSecretChatId
CtorTasks(c, parts, saveNow) ==
  {Task("getSecret", c, i, <<parts[i]>>, 1, "secret") : i \in 1..Len(parts)}
  \cup {Task("addPub", c, i, <<parts[i]>>, 1, "our_secret") : i \in 1..Len(parts)}
  \cup (IF saveNow /\ parts # <<>>
        THEN {Task("save", c, 0, Dedup(parts), 1, "our_secret")} ELSE {})

\* new Chat({key, gun, participants, onMessage}), lines 18-28 and 54-67
NewChat(u, parts, onMessage) ==
  /\ gun' = Put(gun, EpubPath(u), Epub(u))
  /\ chats' = Append(chats, [EmptyChat(u, onMessage) EXCEPT !.keys = Dedup(parts)])
  /\ tasks' = tasks \cup CtorTasks(Len(chats) + 1, parts, TRUE)
  /\ UNCHANGED <<sendLog, seenLog, links, listeners, timeVars>>

\* a reset that leaves the public key in the slot
ResetSecretToPub(ch, pub) == [ch EXCEPT !.secrets[pub] = <<pub>>]

\* addPub line 213: this.secrets[pub] = null
ResetSecret(ch, pub) == [ch EXCEPT !.secrets[pub] = NoVal]

\* addPub(pub) called on a constructed Conversation, lines 212-216 up to the
\* first await: the cached secret is reset, getSecret misses and suspends on
\* the epub lookup, and addPub suspends in getOurSecretChatId
AddPub(c, pub) ==
  /\ LET ch0 == ResetSecret(chats[c], pub)
         ch == [ch0 EXCEPT !.keys = IF InSeq(@, pub) THEN @ ELSE Append(@, pub),
                           !.adds = @ + 1]
         n == 100 + ch.adds
         t == Task("addPub", c, n, <<pub>>, 1, "our_secret")
     IN /\ chats' = [chats EXCEPT ![c] = ch]
        /\ tasks' = tasks \cup {Task("getSecret", c, n, <<pub>>, 1, "secret"),
                                 IF ch.ourSecretChatIds[pub] # NoVal
                                 THEN [t EXCEPT !.pc = "encrypt", !.id = ch.ourSecretChatIds[pub]]
                                 ELSE CallGetId(ch, t, "our")}
  /\ UNCHANGED <<gun, sendLog, seenLog, links, listeners, timeVars>>

\* Chat.initUser(gun, key), lines 311-315
InitUser(u) ==
  /\ Get(gun, EpubPath(u)) = NoVal
  /\ gun' = Put(gun, EpubPath(u), Epub(u))
  /\ UNCHANGED <<chats, tasks, sendLog, seenLog, links, listeners, timeVars>>

SendsOf(c) == {i \in 1..Len(sendLog) : sendLog[i].c = c}

\* send(msg), lines 232-243: a bare string becomes a structured message
Send(c, m, now) ==
  /\ LET msg == IF m.type = "string" THEN Obj(now, "anonymous", m.v[1]) ELSE m
         n == Cardinality(SendsOf(c)) + 1
         t == [Task("send", c, n, chats[c].keys, 1, "secret") EXCEPT !.msg = msg]
         r == SendIter(chats[c], gun, t, 1)
     IN /\ sendLog' = Append(sendLog, [c |-> c, n |-> n, msg |-> msg])
        /\ tasks' = tasks \cup (IF r.t.pc = "done" THEN {} ELSE {r.t})
  /\ UNCHANGED <<gun, chats, seenLog, links, listeners, timeVars>>

SeensOf(c) == {i \in 1..Len(seenLog) : seenLog[i].c = c}

\* setMyMsgsLastSeenTime(time), lines 166-169: time defaults to the clock
SetMyMsgsLastSeenTime(c, time, now) ==
  /\ LET tm == IF time = NoVal THEN now ELSE time[1]
         n == Cardinality(SeensOf(c)) + 1
         t == [Task("seen", c, n, chats[c].keys, 1, "secret") EXCEPT !.msg = Str(tm)]
         r == SendIter(chats[c], gun, t, 1)
     IN /\ seenLog' = Append(seenLog, [c |-> c, n |-> n, time |-> tm])
        /\ tasks' = tasks \cup (IF r.t.pc = "done" THEN {} ELSE {r.t})
  /\ UNCHANGED <<gun, chats, sendLog, links, listeners, timeVars>>

\* save(), lines 254-260, called on an instance after its construction
Save(c) ==
  /\ LET n == chats[c].saves + 1
         r == SaveIter(chats[c], gun, Task("save", c, n, chats[c].keys, 1, "our_secret"), 1)
     IN /\ gun' = r.g
        /\ chats' = [chats EXCEPT ![c].saves = n]
        /\ tasks' = tasks \cup (IF r.t.pc = "done" THEN {} ELSE {r.t})
  /\ UNCHANGED <<sendLog, seenLog, links, listeners, timeVars>>

\* a call of getMyMsgsLastSeenTime, getTheirMsgsLastSeenTime or getLatestMsg,
\* up to its first await
WatchCall(c, op) ==
  /\ \A sub \in chats[c].watch : sub.kind # op
  /\ \A t \in tasks : ~(t.c = c /\ t.op = op)
  /\ LET r == WatchIter(chats[c], gun, Task(op, c, 1, chats[c].keys, 1, "our_secret"), 1)
     IN /\ chats' = [chats EXCEPT ![c] = r.ch]
        /\ tasks' = tasks \cup (IF r.t.pc = "done" THEN {} ELSE {r.t})
  /\ UNCHANGED <<gun, sendLog, seenLog, links, listeners, timeVars>>

\* getMyMsgsLastSeenTime(callback), lines 179-190
GetMyMsgsLastSeenTime(c) == WatchCall(c, "getMy")

\* getTheirMsgsLastSeenTime(callback), lines 195-206
GetTheirMsgsLastSeenTime(c) == WatchCall(c, "getTheir")

\* the listeners of lines 183-188 and 199-204: the value is decrypted with
\* the participant's secret, kept in the instance and passed to the callback
SeenDeliver(c, e) ==
  /\ e \in chats[c].pending
  /\ e.sub.kind \in {"getMy", "getTheir"}
  /\ chats[c].secrets[e.sub.pub] # NoVal
  /\ LET v == SEAdecrypt(e.data, chats[c].secrets[e.sub.pub])
     IN chats' = [chats EXCEPT
          ![c].pending = @ \ {e},
          ![c].myMsgsLastSeenTime = IF e.sub.kind = "getMy" THEN v ELSE @,
          ![c].theirMsgsLastSeenTime = IF e.sub.kind = "getTheir" THEN v ELSE @,
          ![c].calls = Append(@, [kind |-> e.sub.kind, v |-> v, pub |-> e.sub.pub])]
  /\ UNCHANGED <<gun, tasks, sendLog, seenLog, links, listeners, timeVars>>

\* messageReceived(data, pub, selfAuthored), lines 131-142
messageReceived(ch, data, pub, self, secret) ==
  IF ch.onMessage /\ typeof(SEAdecrypt(data, secret)) = "object"
  THEN [ch EXCEPT !.secrets[pub] = secret,
                  !.received = @ \cup {[m |-> SEAdecrypt(data, secret), self |-> self]}]
  ELSE IF ch.onMessage THEN [ch EXCEPT !.secrets[pub] = secret] ELSE ch

MsgKeys == Times \cup {"a"}

\* .map().once(data => messageReceived(...)), lines 222 and 225: the store
\* hands each child of msgs to the callback once.  Without onMessage the
\* callback does nothing (line 132), and the delivery is not a step
Deliver(c, s, k) ==
  /\ chats[c].onMessage
  /\ s \in chats[c].subs
  /\ MsgPath(s.w, s.id, k) \in DOMAIN gun
  /\ [s |-> s, k |-> k] \notin chats[c].fired
  /\ chats[c].secrets[s.pub] # NoVal \/ gunOnceDefined(gun, s.pub)
  /\ LET ch == [chats[c] EXCEPT !.fired = @ \cup {[s |-> s, k |-> k]}]
         secret == IF ch.secrets[s.pub] # NoVal THEN ch.secrets[s.pub]
                   ELSE SEAsecret(Get(gun, EpubPath(s.pub)), ch.key)
     IN chats' = [chats EXCEPT ![c] = messageReceived(ch, gun[MsgPath(s.w, s.id, k)], s.pub, s.self, secret)]
  /\ UNCHANGED <<gun, tasks, sendLog, seenLog, links, listeners, timeVars>>

\* getLatestMsg(callback), lines 147-160
GetLatestMsg(c) == WatchCall(c, "getLatest")

\* the listener of lines 151-158: the value is decrypted with the
\* participant's secret and passed to the callback if typeof says object
LatestDeliver(c, e) ==
  /\ e \in chats[c].pending
  /\ e.sub.kind = "getLatest"
  /\ chats[c].secrets[e.sub.pub] # NoVal \/ gunOnceDefined(gun, e.sub.pub)
  /\ LET ch == chats[c]
         secret == IF ch.secrets[e.sub.pub] # NoVal THEN ch.secrets[e.sub.pub]
                   ELSE SEAsecret(Get(gun, EpubPath(e.sub.pub)), ch.key)
         decrypted == SEAdecrypt(e.data, secret)
     IN chats' = [chats EXCEPT
          ![c].pending = @ \ {e},
          ![c].secrets[e.sub.pub] = secret,
          ![c].calls = IF typeof(decrypted) = "object"
                       THEN Append(@, [kind |-> e.sub.kind, v |-> decrypted, pub |-> e.sub.pub])
                       ELSE @]
  /\ UNCHANGED <<gun, tasks, sendLog, seenLog, links, listeners, timeVars>>

\* what another writer of a channel can leave in it: a plain string, a null,
\* a ciphertext under a secret of other parties, and ciphertexts under the
\* pair's secret of a string and of null
Garbage(secret) ==
  {<<"junk">>, Null,
   SEAencrypt(JSONstringify(Obj("t1", "C", "x")), <<"dh", "C", "D">>),
   SEAencrypt(<<"z">>, secret), SEAencrypt(Null, secret)}

GarbageKeys == {"g"}

\* a put by another writer into a slot the Conversations listen to
ForeignWrite(path, data) ==
  /\ gun' = Put(gun, path, data)
  /\ chats' = Notify(chats, gun, gun')
  /\ UNCHANGED <<tasks, sendLog, seenLog, links, listeners, timeVars>>

\* two structured messages and a bare string (its time is the clock reading)
MsgInputs == {Obj("t1", "A", "x"), Obj("t2", "A", "y"), Str("z")}

\* the state a constructor call leaves: the instance and its suspended tasks
CtorChat(u, parts, onMessage) == [EmptyChat(u, onMessage) EXCEPT !.keys = Dedup(parts)]

\* ------------------------------------------------------------ invite links
\* the keypair Gun.SEA.pair() generates in createChatLink
Ephemeral == "E"

UrlRoot == <<"https://iris.to/">>

Min(a, b) == IF a <= b THEN a ELSE b

\* .slice(0, 12) of a hash
slice12(h) == SubSeq(h, 1, Min(12, Len(h)))

EncodeAtom(a) ==
  CASE a = "&" -> "%26" [] a = "?" -> "%3F" [] a = "=" -> "%3D" [] a = "%" -> "%25"
    [] OTHER -> a

DecodeAtom(a) ==
  CASE a = "%26" -> "&" [] a = "%3F" -> "?" [] a = "%3D" -> "=" [] a = "%25" -> "%"
    [] OTHER -> a

\* a formatter that leaves reserved characters as they are
encodeURIComponentRaw(s) == s

encodeURIComponent(s) == [i \in 1..Len(s) |-> EncodeAtom(s[i])]

decodeURIComponent(s) == [i \in 1..Len(s) |-> DecodeAtom(s[i])]

\* formatChatLink, lines 317-319
formatChatLink(urlRoot, pub, sharedSecret, linkId) ==
  urlRoot \o <<"?", "chatWith", "=">> \o encodeURIComponent(pub)
    \o <<"&", "s", "=">> \o encodeURIComponent(sharedSecret)
    \o <<"&", "k", "=">> \o encodeURIComponent(linkId)

\* String.prototype.split(sep)
RECURSIVE Split(_, _)
Split(s, sep) ==
  IF ~InSeq(s, sep) THEN <<s>>
  ELSE LET i == CHOOSE i \in 1..Len(s) : s[i] = sep /\ \A j \in 1..(i - 1) : s[j] # sep
       IN <<SubSeq(s, 1, i - 1)>> \o Split(SubSeq(s, i + 1, Len(s)), sep)

\* util.getUrlParameter(name, query): the decoded value of the first
\* name=value pair of the query, undefined when there is none
getUrlParameter(name, query) ==
  LET pairs == Split(query, "&")
      hits == {i \in 1..Len(pairs) : Split(pairs[i], "=")[1] = <<name>>}
  IN IF hits = {} THEN NoVal
     ELSE LET kv == Split(pairs[CHOOSE i \in hits : \A j \in hits : i <= j], "=")
          IN IF Len(kv) < 2 THEN <<"true">> ELSE decodeURIComponent(kv[2])

LinkPath(u, linkId, field) == <<u, "chatLinks">> \o linkId \o <<field>>
RequestPath(e, requestId) == <<e, "chatRequests">> \o requestId

\* JSON.stringify of a keypair, and of a stored value
KeyString(e) == <<"{", e, "}">>
Quoted(v) == <<"'">> \o v \o <<"'">>

\* createChatLink(gun, key), line 324: the call, suspended on its crypto
CreateChatLink(u) ==
  /\ links = <<>>
  /\ \A t \in tasks : t.op # "link"
  /\ tasks' = tasks \cup {[Task("link", 0, 1, <<u>>, 1, "link_ns") EXCEPT !.id = <<Ephemeral>>]}
  /\ UNCHANGED <<gun, chats, sendLog, seenLog, links, listeners, timeVars>>

\* a createChatLink that leaves the namespace alone
NamespaceWriteSkipped(g, e) == g

\* line 339: user.get('chatRequests').put({a: 1}) as the ephemeral user
NamespaceWrite(g, e) == Put(g, RequestPath(e, <<"a">>), <<"1">>)

\* createChatLink lines 328-340: the keypair and the ciphertexts are there,
\* the placeholder is put into the namespace of the ephemeral keypair
ResumeLinkNamespace(t) ==
  /\ t.pc = "link_ns"
  /\ gun' = NamespaceWrite(gun, t.id[1])
  /\ tasks' = (tasks \ {t}) \cup {[t EXCEPT !.pc = "link_put"]}
  /\ UNCHANGED <<chats, sendLog, seenLog, links, listeners, timeVars>>

\* createChatLink lines 342-344: the placeholder is acknowledged, the link
\* record is published and the URL returned
ResumeLinkPublish(t) ==
  /\ t.pc = "link_put"
  /\ LET e == t.id[1]
         u == t.keys[1]
         sharedSecret == SEAsecret(Epub(e), e)
         encryptedSharedKey == SEAencrypt(KeyString(e), sharedSecret)
         ownerEncryptedSharedKey == SEAencrypt(KeyString(e), SEAsecret(Epub(u), u))
         linkId == slice12(SEAwork(encryptedSharedKey))
     IN /\ gun' = Put(Put(gun, LinkPath(u, linkId, "encryptedSharedKey"), encryptedSharedKey),
                      LinkPath(u, linkId, "ownerEncryptedSharedKey"), ownerEncryptedSharedKey)
        /\ links' = Append(links, formatChatLink(UrlRoot, <<u>>, sharedSecret, linkId))
  /\ tasks' = tasks \ {t}
  /\ UNCHANGED <<chats, sendLog, seenLog, listeners, timeVars>>

\* the parsing of options.chatLink, lines 30-36: nothing is read unless the
\* link splits into two pieces at '?'
ParseChatLink(chatLink) ==
  LET s == Split(chatLink, "?")
      two == Len(s) = 2
  IN [two |-> two,
      pub |-> IF two THEN getUrlParameter("chatWith", s[2]) ELSE NoVal,
      sharedSecret |-> IF two THEN getUrlParameter("s", s[2]) ELSE NoVal,
      linkId |-> IF two THEN getUrlParameter("k", s[2]) ELSE NoVal]

\* new Chat({key, gun, chatLink, onMessage}), lines 18-67
NewChatFromLink(u, chatLink, onMessage) ==
  LET parsed == ParseChatLink(chatLink)
      two == parsed.two
      pub == parsed.pub
      sharedSecret == parsed.sharedSecret
      linkId == parsed.linkId
      join == two /\ pub # <<u>> /\ sharedSecret # NoVal /\ linkId # NoVal
      parts == IF Len(pub) = 1 /\ pub[1] \in Users THEN pub ELSE <<>>
      c == Len(chats) + 1
      \* line 39: save() runs on the still empty this.secrets
      saved == SaveIter(EmptyChat(u, onMessage), Put(gun, EpubPath(u), Epub(u)),
                        Task("save", c, 0, <<>>, 1, "our_secret"), 1)
      sub == [owner |-> pub, linkId |-> linkId, sharedSecret |-> sharedSecret, fired |-> FALSE]
  IN /\ gun' = IF join THEN saved.g ELSE Put(gun, EpubPath(u), Epub(u))
     /\ chats' = Append(chats, [CtorChat(u, parts, onMessage) EXCEPT
                                  !.linkSubs = IF join THEN {sub} ELSE {}])
     /\ tasks' = tasks \cup CtorTasks(c, parts, ~join)
                       \cup (IF join /\ saved.t.pc # "done" THEN {saved.t} ELSE {})
     /\ UNCHANGED <<sendLog, seenLog, links, listeners, timeVars>>

\* the encryptedSharedKey listener of the joiner, lines 41-48: the store hands
\* it the published value; the three awaits read nothing but that value
JoinerRequest(c, ls) ==
  /\ ls \in chats[c].linkSubs
  /\ ~ls.fired
  /\ Get(gun, LinkPath(ls.owner[1], ls.linkId, "encryptedSharedKey")) # NoVal
  /\ LET encrypted == gun[LinkPath(ls.owner[1], ls.linkId, "encryptedSharedKey")]
         sharedKey == SEAdecrypt(encrypted, ls.sharedSecret)
         encryptedChatRequest == SEAencrypt(<<chats[c].key>>, ls.sharedSecret)
         chatRequestId == SEAwork(encryptedChatRequest)
     IN gun' = IF sharedKey.type = "object"
               THEN Put(gun, RequestPath(sharedKey.v[1], slice12(chatRequestId)),
                        encryptedChatRequest)
               ELSE gun
  /\ chats' = [chats EXCEPT ![c].linkSubs = (@ \ {ls}) \cup {[ls EXCEPT !.fired = TRUE]}]
  /\ UNCHANGED <<tasks, sendLog, seenLog, links, listeners, timeVars>>

\* getMyChatLinks(gun, key, urlRoot, callback, subscribe), lines 347-352
GetMyChatLinks(u, subscribe) ==
  /\ listeners = <<>>
  /\ listeners' = Append(listeners,
       [key |-> u, subscribe |-> subscribe,
        chatLinks |-> <<>>,     \* the array of line 351
        reported |-> <<>>,      \* the callback invocations of line 362
        outer |-> {},           \* link ids the chatLinks map has delivered
        inner |-> {},           \* ownerEncryptedSharedKey subscriptions
        replays |-> 0,          \* repeated deliveries of a link by the chatLinks map
        again |-> 0,            \* repeated deliveries of an ownerEncryptedSharedKey
        requests |-> {}])       \* chatRequests subscriptions
  /\ UNCHANGED <<gun, chats, tasks, sendLog, seenLog, links, timeVars>>

LinkIds(u) ==
  {SubSeq(p, 3, Len(p) - 1) : p \in {q \in DOMAIN gun : Len(q) > 3 /\ q[1] = u /\ q[2] = "chatLinks"}}

\* the value the chatLinks map hands over for a link: null once the link
\* has been put to null
LinkRemoved(g, u, linkId) == Get(g, LinkPath(u, linkId, "ownerEncryptedSharedKey")) = Null

\* a listener that forgets the links it has seen
AlreadyListedNever(chatLinks, linkId) == FALSE

\* lines 353 and 356: chatLinks.indexOf(linkId) !== -1
AlreadyListed(chatLinks, linkId) == InSeq(chatLinks, linkId)

\* the chatLinks map listener, lines 352-355, handed link linkId: unless the
\* link is null or listed, an ownerEncryptedSharedKey subscription is made
OuterHandler(L, linkId) ==
  [L EXCEPT
     !.outer = @ \cup {linkId},
     !.inner = IF LinkRemoved(gun, L.key, linkId) \/ AlreadyListed(L.chatLinks, linkId) THEN @
               ELSE @ \cup {[linkId |-> linkId, n |-> Cardinality(L.inner) + 1, fired |-> FALSE]}]

\* the store hands a link to the chatLinks map listener for the first time
OuterFire(l, linkId) ==
  /\ linkId \in LinkIds(listeners[l].key)
  /\ linkId \notin listeners[l].outer
  /\ listeners' = [listeners EXCEPT ![l] = OuterHandler(listeners[l], linkId)]
  /\ UNCHANGED <<gun, chats, tasks, sendLog, seenLog, links, timeVars>>

\* the store hands it a link again: an update of the record, or a replay
OuterReplay(l, linkId) ==
  /\ linkId \in listeners[l].outer
  /\ listeners[l].replays < MaxReplay
  /\ listeners' = [listeners EXCEPT
                     ![l] = [OuterHandler(listeners[l], linkId) EXCEPT !.replays = @ + 1]]
  /\ UNCHANGED <<gun, chats, tasks, sendLog, seenLog, links, timeVars>>

\* the ownerEncryptedSharedKey listener, lines 355-357, handed the value of
\* the slot, up to its first await: a new link is listed and the decryption
\* of the keypair started
InnerHandler(l, in) ==
  LET L == listeners[l]
      enc == gun[LinkPath(L.key, in.linkId, "ownerEncryptedSharedKey")]
      done == (L.inner \ {in}) \cup {[in EXCEPT !.fired = TRUE]}
  IN IF enc = Null \/ AlreadyListed(L.chatLinks, in.linkId)
     THEN /\ listeners' = [listeners EXCEPT ![l].inner = done,
                             ![l].again = IF in.fired THEN @ + 1 ELSE @]
          /\ UNCHANGED tasks
     ELSE /\ listeners' = [listeners EXCEPT
                             ![l].inner = done,
                             ![l].again = IF in.fired THEN @ + 1 ELSE @,
                             ![l].chatLinks = Append(@, in.linkId)]
          /\ tasks' = tasks \cup
               {[Task("listed", l, Len(L.chatLinks) + 1, in.linkId, 1, "link_decrypt")
                   EXCEPT !.enc = enc]}

\* the store hands the slot to the listener for the first time
InnerFire(l, in) ==
  /\ in \in listeners[l].inner
  /\ ~in.fired
  /\ Get(gun, LinkPath(listeners[l].key, in.linkId, "ownerEncryptedSharedKey")) # NoVal
  /\ InnerHandler(l, in)
  /\ UNCHANGED <<gun, chats, sendLog, seenLog, links, timeVars>>

\* the store hands it the slot again
InnerReplay(l, in) ==
  /\ in \in listeners[l].inner
  /\ in.fired
  /\ listeners[l].again < MaxReplay
  /\ InnerHandler(l, in)
  /\ UNCHANGED <<gun, chats, sendLog, seenLog, links, timeVars>>

\* lines 358-377: the keypair is decrypted and its secret derived, the link
\* is passed to the callback and the chatRequests subscription is made
ResumeListed(t) ==
  /\ t.pc = "link_decrypt"
  /\ LET L == listeners[t.c]
         sharedKey == SEAdecrypt(t.enc, SEAsecret(Epub(L.key), L.key))
         e == sharedKey.v[1]
         sharedSecret == SEAsecret(Epub(e), e)
         url == formatChatLink(UrlRoot, <<L.key>>, sharedSecret, t.keys)
     IN listeners' = [listeners EXCEPT
          ![t.c].reported = Append(@, [url |-> url, id |-> t.keys]),
          ![t.c].requests = IF L.subscribe
                            THEN @ \cup {[linkId |-> t.keys, n |-> Len(L.reported) + 1,
                                          sharedKey |-> e, sharedSecret |-> sharedSecret,
                                          chats |-> <<>>, log |-> <<>>]}
                            ELSE @]
  /\ tasks' = tasks \ {t}
  /\ UNCHANGED <<gun, chats, sendLog, seenLog, links, timeVars>>

\* removeChatLink(gun, key, linkId), lines 386-389: the record is put to null
RemoveChatLink(u, linkId) ==
  /\ ~LinkRemoved(gun, u, linkId)
  /\ gun' = Put(Put(gun, LinkPath(u, linkId, "encryptedSharedKey"), Null),
                LinkPath(u, linkId, "ownerEncryptedSharedKey"), Null)
  /\ UNCHANGED <<chats, tasks, sendLog, seenLog, links, listeners, timeVars>>

RequestIds(e) ==
  {SubSeq(p, 3, Len(p)) : p \in {q \in DOMAIN gun : Len(q) > 2 /\ q[1] = e /\ q[2] = "chatRequests"}}

\* how often the listener has been handed value v of request k
Count(rs, k, v) == Cardinality({i \in 1..Len(rs.log) : rs.log[i].k = k /\ rs.log[i].v = v})

\* the listener without its memory of processed requests
IsNewRequestAlways(chatsArray, s) == TRUE

\* line 368: chats.indexOf(s) === -1
IsNewRequest(chatsArray, s) == ~InSeq(chatsArray, s)

\* the listener leaving the request where it is
RemoveRequestSkipped(g, e, requestId) == g

\* lines 374-376: the request is removed from the ephemeral namespace
RemoveRequest(g, e, requestId) == Put(g, RequestPath(e, requestId), Null)

\* line 366: if (!encPub) return
IsEmptyRequest(v) == v = Null

\* the chatRequests map listener, lines 365-377, handed value v of request k
RequestHandler(l, rs, k, v) ==
  LET rs1 == [rs EXCEPT !.log = Append(@, [k |-> k, v |-> v])]
      s == Quoted(v)
  IN IF IsEmptyRequest(v)
     THEN /\ listeners' = [listeners EXCEPT ![l].requests = (@ \ {rs}) \cup {rs1}]
          /\ UNCHANGED <<gun, tasks>>
     ELSE IF IsNewRequest(rs.chats, s)
     THEN /\ listeners' = [listeners EXCEPT
                ![l].requests = (@ \ {rs}) \cup {[rs1 EXCEPT !.chats = Append(@, s)]}]
          /\ tasks' = tasks \cup
                {[Task("request", l, Len(rs.chats) + 1, k, 1, "req_decrypt") EXCEPT
                    !.enc = v, !.sec = rs.sharedSecret, !.id = <<rs.sharedKey>>]}
          /\ UNCHANGED gun
     ELSE /\ listeners' = [listeners EXCEPT ![l].requests = (@ \ {rs}) \cup {rs1}]
          /\ gun' = RemoveRequest(gun, rs.sharedKey, k)
          /\ UNCHANGED tasks

\* deliveries the listener has had beyond the first one of each value
Replays(rs) == Len(rs.log) - Cardinality({<<rs.log[i].k, rs.log[i].v>> : i \in 1..Len(rs.log)})

\* the store hands the listener the value of a request: the current value,
\* once, or again a non-null value it has handed over before
RequestFire(l, rs, k, v) ==
  /\ rs \in listeners[l].requests
  /\ \/ v = Get(gun, RequestPath(rs.sharedKey, k)) /\ v # NoVal /\ Count(rs, k, v) = 0
     \/ v # Null /\ Count(rs, k, v) > 0 /\ Replays(rs) < MaxReplay
  /\ RequestHandler(l, rs, k, v)
  /\ UNCHANGED <<chats, sendLog, seenLog, links, timeVars>>

\* a new request, lines 370-376: the joiner's key is decrypted, a Chat is
\* constructed and saved, the request is removed
ResumeRequest(t) ==
  /\ t.pc = "req_decrypt"
  /\ LET pub == SEAdecrypt(t.enc, t.sec)
         u == listeners[t.c].key
         parts == IF pub.type = "string" /\ pub.v[1] \in Users THEN pub.v ELSE <<>>
         c == Len(chats) + 1
     IN /\ chats' = Append(chats, [CtorChat(u, parts, FALSE) EXCEPT !.from = t.enc, !.saves = 1])
        /\ tasks' = (tasks \ {t}) \cup CtorTasks(c, parts, TRUE)
                      \cup (IF parts # <<>>
                            THEN {Task("save", c, 1, Dedup(parts), 1, "our_secret")} ELSE {})
        /\ gun' = RemoveRequest(Put(gun, EpubPath(u), Epub(u)), t.id[1], t.keys)
  /\ UNCHANGED <<sendLog, seenLog, links, listeners, timeVars>>

\* O = A creates a link and lists its links; J = B opens the link.  The
\* derivations the constructors start (getSecret, addPub, save) write only
\* the caches of their Conversation and its chats/ nodes, which no step of
\* the exchange reads: they stay suspended here and run in SpecIds, SpecSend
InitInvite ==
  /\ gun = <<>>
  /\ chats = <<>>
  /\ tasks = {}
  /\ sendLog = <<>>
  /\ seenLog = <<>>
  /\ links = <<>>
  /\ listeners = <<>>
  /\ InitTime

\* the values a chatRequests listener can be handed
RequestValues(rs) ==
  {Get(gun, RequestPath(rs.sharedKey, k)) : k \in RequestIds(rs.sharedKey)}
    \cup {rs.log[i].v : i \in 1..Len(rs.log)}

NextInvite ==
  \/ CreateChatLink("A")
  \/ \E t \in tasks : ResumeLinkNamespace(t)
  \/ \E t \in tasks : ResumeLinkPublish(t)
  \/ \E b \in BOOLEAN : GetMyChatLinks("A", b)
  \/ \E l \in 1..Len(listeners), id \in LinkIds("A") : OuterFire(l, id)
  \/ \E l \in 1..Len(listeners) : \E in \in listeners[l].inner : InnerFire(l, in)
  \/ \E t \in tasks : ResumeListed(t)
  \/ \E u \in {"B"}, i \in 1..Len(links) :
       /\ \A c \in 1..Len(chats) : ~(chats[c].key = u /\ chats[c].from = NoVal)
       /\ NewChatFromLink(u, links[i], FALSE)
  \/ \E c \in 1..Len(chats) : \E ls \in chats[c].linkSubs : JoinerRequest(c, ls)
  \/ \E l \in 1..Len(listeners) : \E rs \in listeners[l].requests :
       \E k \in RequestIds(rs.sharedKey), v \in RequestValues(rs) : RequestFire(l, rs, k, v)
  \/ \E t \in tasks : ResumeRequest(t)

SpecInvite == InitInvite /\ [][NextInvite]_vars

\* ------------------------------------------------ one Conversation, sends
\* A has just constructed a Conversation with B; B may not have published
\* its encryption key yet
InitSend ==
  /\ gun = Put(<<>>, EpubPath("A"), Epub("A"))
  /\ chats = <<CtorChat("A", <<"B">>, FALSE)>>
  /\ tasks = CtorTasks(1, <<"B">>, TRUE)
  /\ sendLog = <<>>
  /\ seenLog = <<>>
  /\ links = <<>>
  /\ listeners = <<>>
  /\ InitTime

NextSend ==
  \/ InitUser("B")
  \/ \E t \in tasks : ResumeGetSecret(t)
  \/ \E t \in tasks : ResumeWork(t)
  \/ \E t \in tasks : ResumeEncrypt(t)
  \/ \E m \in MsgInputs :
       Len(sendLog) + Len(seenLog) < MaxCalls /\ Send(1, m, "t1")
  \/ \E tm \in {NoVal, <<"t1">>} :
       Len(sendLog) + Len(seenLog) < MaxCalls /\ SetMyMsgsLastSeenTime(1, tm, "t2")

SpecSend == InitSend /\ [][NextSend]_vars

\* ------------------------------------------- one Conversation, a group
\* A has just constructed a Conversation with B and C, in either order; B has
\* published its encryption key, C has not and may never do so
InitGroup ==
  /\ gun = Put(Put(<<>>, EpubPath("A"), Epub("A")), EpubPath("B"), Epub("B"))
  /\ \E parts \in {<<"B", "C">>, <<"C", "B">>} :
       /\ chats = <<CtorChat("A", parts, FALSE)>>
       /\ tasks = CtorTasks(1, parts, TRUE)
  /\ sendLog = <<>>
  /\ seenLog = <<>>
  /\ links = <<>>
  /\ listeners = <<>>
  /\ InitTime

NextGroup ==
  \/ InitUser("C")
  \/ \E t \in tasks : ResumeGetSecret(t)
  \/ \E t \in tasks : ResumeWork(t)
  \/ \E t \in tasks : ResumeEncrypt(t)
  \/ \E m \in {Obj("t1", "A", "x"), Str("z")} : Len(sendLog) < MaxGroupSends /\ Send(1, m, "t2")

SpecGroup == InitGroup /\ [][NextGroup]_vars

\* ------------------------------------------------------------- getChats
\* util.gunOnceDefined(node): resolves once the node holds a defined value
gunOnceDefinedAt(g, path) == Get(g, path) \notin {NoVal, Null}

\* getChats(gun, keypair, callback), lines 104-106
GetChats(u) ==
  /\ listings = <<>>
  /\ listings' = Append(listings,
       [key |-> u,
        handed |-> {},     \* channel ids the chats map has delivered
        waiting |-> {},    \* handler runs suspended on the pub of their channel
        called |-> <<>>])  \* the arguments of the callback invocations
  /\ UNCHANGED <<gun, chats, tasks, sendLog, seenLog, links, listeners, formatted, clock, heart, observers>>

\* the children of user.get('chats')
ChannelIds(u) ==
  {SubSeq(q, 3, 7) : q \in {r \in DOMAIN gun : Len(r) > 7 /\ r[1] = u /\ r[2] = "chats"}}

\* the value the chats map hands over for a channel: the node, or null once
\* the channel has been put to null
ChatNode(g, u, id) == IF Get(g, ChatPath(u, id)) = Null THEN Null ELSE <<"node">>

\* the chats map listener, lines 106-108, up to its await: if (value)
ListingFire(l, id) ==
  /\ id \in ChannelIds(listings[l].key)
  /\ id \notin listings[l].handed
  /\ listings' = [listings EXCEPT
       ![l].handed = @ \cup {id},
       ![l].waiting = IF ChatNode(gun, listings[l].key, id) # Null THEN @ \cup {id} ELSE @]
  /\ UNCHANGED <<gun, chats, tasks, sendLog, seenLog, links, listeners, formatted, clock, heart, observers>>

\* the callback handed the stored value parsed but not decrypted
ListedPubRaw(g, u, id) == JSONparse(Get(g, PubPath(u, id)))

\* lines 108-109: the participant's key, decrypted with the own secret
ListedPub(g, u, id) == SEAdecrypt(Get(g, PubPath(u, id)), SEAsecret(Epub(u), u))

\* lines 108-110: the pub of the channel is defined, the callback is invoked
ListingResume(l, id) ==
  /\ id \in listings[l].waiting
  /\ gunOnceDefinedAt(gun, PubPath(listings[l].key, id))
  /\ listings' = [listings EXCEPT
       ![l].waiting = @ \ {id},
       ![l].called = Append(@, ListedPub(gun, listings[l].key, id))]
  /\ UNCHANGED <<gun, chats, tasks, sendLog, seenLog, links, listeners, formatted, clock, heart, observers>>

\* A has constructed a Conversation with B and C and no message is sent
NextListing ==
  \/ InitUser("C")
  \/ \E t \in tasks : ResumeGetSecret(t)
  \/ \E t \in tasks : ResumeWork(t)
  \/ \E t \in tasks : ResumeEncrypt(t)
  \/ GetChats("A")
  \/ \E l \in 1..Len(listings), id \in ChannelIds("A") : ListingFire(l, id)
  \/ \E l \in 1..Len(listings) : \E id \in listings[l].waiting : ListingResume(l, id)

SpecListing == InitGroup /\ [][NextListing]_vars

\* ------------------------------------------------------------- presence
\* setInterval(update, 3000), line 274
HeartbeatPeriod == 3000

LastActivePath(u) == <<u, "lastActive">>

\* a number as the store holds it, and back
NumStr(n) == <<ToString(n)>>
StrNum(v) == CHOOSE n \in 0..((3 * Epoch) \div 1000) : NumStr(n) = v

\* the clock cut down to whole seconds
Floor(ms) == ms \div 1000

\* Math.round(Gun.state() / 1000), lines 271 and 291: the nearest second,
\* a half rounded up
Round(ms) == (ms + 500) \div 1000

\* an entry of the log: a setOnline call, or a write of update() with the
\* timer it belongs to and the time that timer was set
Event(ev, by, v, start, id) ==
  [ev |-> ev, by |-> by, at |-> clock, v |-> v, start |-> start, id |-> id]

\* an enable that never finds a timer set
AlreadyOnlineNever(h) == FALSE

\* line 269: if (gun.setOnlineInterval)
AlreadyOnline(h) == h.interval # 0

\* setOnline(gun, isOnline), lines 267-279, with u the user of the store
SetOnline(u, isOnline) ==
  /\ IF isOnline
     THEN IF AlreadyOnline(heart)
          THEN /\ heart' = [heart EXCEPT !.log = Append(@, Event("enable", "call", 0, 0, 0))]
               /\ UNCHANGED gun
          ELSE /\ gun' = Put(gun, LastActivePath(u), NumStr(Round(clock)))
               /\ heart' = [interval |-> heart.made + 1,
                            armed |-> heart.armed \cup
                                        {[id |-> heart.made + 1, start |-> clock,
                                          due |-> clock + HeartbeatPeriod]},
                            made |-> heart.made + 1,
                            log |-> heart.log \o <<Event("enable", "call", 0, 0, 0),
                                                   Event("write", "enable", Round(clock), clock, heart.made + 1)>>]
     ELSE /\ heart' = [heart EXCEPT !.interval = 0,
                                    !.armed = {t \in @ : t.id # heart.interval},
                                    !.log = Append(@, Event("disable", "call", 0, 0, 0))]
          /\ UNCHANGED gun
  /\ UNCHANGED <<chats, tasks, sendLog, seenLog, links, listeners, formatted, clock, observers, listings>>

\* the interval timer t fires: update(), lines 270-272
HeartbeatTick(u, t) ==
  /\ t \in heart.armed
  /\ clock = t.due
  /\ gun' = Put(gun, LastActivePath(u), NumStr(Round(clock)))
  /\ heart' = [heart EXCEPT
       !.armed = (@ \ {t}) \cup {[t EXCEPT !.due = @ + HeartbeatPeriod]},
       !.log = Append(@, Event("write", "tick", Round(clock), t.start, t.id))]
  /\ UNCHANGED <<chats, tasks, sendLog, seenLog, links, listeners, formatted, clock, observers, listings>>

\* every timer that is set: the heartbeat intervals and the offline timeouts
DueTimes ==
  {t.due : t \in heart.armed}
    \cup UNION {{t.due : t \in observers[o].timers} : o \in 1..Len(observers)}

\* the clock advances by d milliseconds; a timer fires when it is due
Advance(d) ==
  /\ \A due \in DueTimes : clock + d <= due
  /\ clock' = clock + d
  /\ UNCHANGED <<gun, chats, tasks, sendLog, seenLog, links, listeners, formatted, heart, observers, listings>>

CallsOf(log) == {i \in 1..Len(log) : log[i].by = "call"}

\* A enables and disables its presence while the clock runs
InitOnline ==
  /\ gun = Put(<<>>, EpubPath("A"), Epub("A"))
  /\ chats = <<>>
  /\ tasks = {}
  /\ sendLog = <<>>
  /\ seenLog = <<>>
  /\ links = <<>>
  /\ listeners = <<>>
  /\ InitTime

NextOnline ==
  \/ \E b \in BOOLEAN :
       Cardinality(CallsOf(heart.log)) < MaxOnlineCalls /\ SetOnline("A", b)
  \/ \E t \in heart.armed : HeartbeatTick("A", t)
  \/ clock + 500 <= Epoch + 1000 * MaxElapsed /\ Advance(500)

SpecOnline == InitOnline /\ [][NextOnline]_vars

\* setTimeout(..., 10000), line 296
OfflineDelay == 10000

\* line 292: lastActive > now - 10 && lastActive < now + 30
OnlineBehind == 10
OnlineAhead == 30

\* getOnline(gun, pubKey, callback), lines 288-290: the closure
GetOnline(pub) ==
  /\ observers = <<>>
  /\ observers' = Append(observers,
       [pub |-> pub,
        timeout |-> 0,     \* the variable of line 289, 0 when undefined
        timers |-> {},     \* the timeouts that are set: [id, due, lastActive]
        made |-> 0,        \* timers created so far
        handed |-> NoVal,  \* the value the store handed over last
        log |-> <<>>])     \* the callback invocations
  /\ UNCHANGED <<gun, chats, tasks, sendLog, seenLog, links, listeners, formatted, clock, heart, listings>>

\* the window of line 292 with its two widths exchanged
IsOnlineSwapped(lastActive, now) ==
  lastActive > now - OnlineAhead /\ lastActive < now + OnlineBehind

\* the window of line 292 with its bounds included
IsOnlineInclusive(lastActive, now) ==
  lastActive >= now - OnlineBehind /\ lastActive <= now + OnlineAhead

\* line 292
IsOnline(lastActive, now) ==
  lastActive > now - OnlineBehind /\ lastActive < now + OnlineAhead

\* an update that leaves the pending timeout alone
ClearTimeoutSkipped(timers, handle) == timers

\* clearTimeout(timeout), line 290
ClearTimeout(timers, handle) == {t \in timers : t.id # handle}

Callback(isOnline, lastActive, synthetic) ==
  [isOnline |-> isOnline, lastActive |-> lastActive, at |-> clock, synthetic |-> synthetic]

\* the store has a value of the watched slot the observer was not handed
PresencePending(o) ==
  Get(gun, LastActivePath(observers[o].pub)) \notin {NoVal, observers[o].handed}

\* the lastActive listener, lines 289-297
PresenceUpdate(o) ==
  /\ PresencePending(o)
  /\ LET ob == observers[o]
         v == Get(gun, LastActivePath(ob.pub))
         lastActive == StrNum(v)
         now == Round(clock)
         isOnline == IsOnline(lastActive, now)
         cleared == ClearTimeout(ob.timers, ob.timeout)
     IN observers' = [observers EXCEPT ![o] =
          [ob EXCEPT
             !.handed = v,
             !.log = Append(@, Callback(isOnline, lastActive, FALSE)),
             !.timeout = IF isOnline THEN ob.made + 1 ELSE @,
             !.made = IF isOnline THEN @ + 1 ELSE @,
             !.timers = IF isOnline
                        THEN cleared \cup {[id |-> ob.made + 1, due |-> clock + OfflineDelay,
                                            lastActive |-> lastActive]}
                        ELSE cleared]]
  /\ UNCHANGED <<gun, chats, tasks, sendLog, seenLog, links, listeners, formatted, clock, heart, listings>>

\* the timeout t of line 296 fires
OfflineTimeout(o, t) ==
  /\ t \in observers[o].timers
  /\ clock = t.due
  /\ observers' = [observers EXCEPT
       ![o].timers = @ \ {t},
       ![o].log = Append(@, Callback(FALSE, t.lastActive, TRUE))]
  /\ UNCHANGED <<gun, chats, tasks, sendLog, seenLog, links, listeners, formatted, clock, heart, listings>>

\* the peer of the watched identity writes a heartbeat; its clock and the
\* delivery are its own, so the value may lie behind or ahead of the clock
RemoteHeartbeat(pub, lastActive) ==
  /\ gun' = Put(gun, LastActivePath(pub), NumStr(lastActive))
  /\ UNCHANGED <<chats, tasks, sendLog, seenLog, links, listeners, timeVars>>

\* how far the heartbeat of a peer lies from the local clock, in seconds
Skews == {-20, -10, -9, 0, 20, 30}

Updates(o) == {i \in 1..Len(observers[o].log) : ~observers[o].log[i].synthetic}

\* A watches B
InitPresence ==
  /\ gun = Put(Put(<<>>, EpubPath("A"), Epub("A")), EpubPath("B"), Epub("B"))
  /\ chats = <<>>
  /\ tasks = {}
  /\ sendLog = <<>>
  /\ seenLog = <<>>
  /\ links = <<>>
  /\ listeners = <<>>
  /\ InitTime

NextPresence ==
  \/ GetOnline("B")
  \/ \E d \in Skews :
       /\ IF observers = <<>> THEN Get(gun, LastActivePath("B")) = NoVal
          ELSE ~PresencePending(1) /\ Cardinality(Updates(1)) < MaxUpdates
       /\ RemoteHeartbeat("B", Round(clock) + d)
  \/ \E o \in 1..Len(observers) : PresenceUpdate(o)
  \/ \E o \in 1..Len(observers) : \E t \in observers[o].timers : OfflineTimeout(o, t)
  \/ \E d \in {1500} \cup {due - clock : due \in DueTimes} :
       d > 0 /\ clock + d <= Epoch + 1000 * MaxWatch /\ Advance(d)

SpecPresence == InitPresence /\ [][NextPresence]_vars

\* ---------------------------------------- one Conversation, saved again
NextSave ==
  \/ InitUser("B")
  \/ \E t \in tasks : ResumeGetSecret(t)
  \/ \E t \in tasks : ResumeWork(t)
  \/ \E t \in tasks : ResumeEncrypt(t)
  \/ chats[1].saves < MaxSaves /\ Save(1)
  \/ sendLog = <<>> /\ Send(1, Obj("t1", "A", "x"), "t1")

SpecSave == InitSend /\ [][NextSave]_vars

\* ------------------------------------------------- two parties, A sends
\* the Conversation of u with p once the calls of its constructor have all
\* completed (addPub lines 213-225, save 255-259)
SettledChat(u, p) ==
  LET s == SEAsecret(Epub(p), u)
      ch == CtorChat(u, <<p>>, FALSE)
  IN [ch EXCEPT !.secrets[p] = s,
                !.ourSecretChatIds[p] = OurSecretChatId(s, u, p),
                !.theirSecretChatIds[p] = TheirSecretChatId(s, u, p),
                !.subs = {TheirSub(ch, p, TheirSecretChatId(s, u, p)),
                          OurSub(ch, p, OurSecretChatId(s, u, p))}]

\* what that Conversation has written to the store
SettledStore(g, u, p) ==
  LET id == OurSecretChatId(SEAsecret(Epub(p), u), u, p)
  IN Put(Put(g, PubPath(u, id), SEAencrypt(<<p>>, SEAsecret(Epub(u), u))),
         MsgPath(u, id, "a"), Null)

\* A holds a Conversation with B whose construction has completed; B has
\* just constructed its Conversation with A, with an onMessage callback
InitPair ==
  /\ gun = SettledStore(Put(Put(<<>>, EpubPath("A"), Epub("A")), EpubPath("B"), Epub("B")),
                        "A", "B")
  /\ chats = <<SettledChat("A", "B"), CtorChat("B", <<"A">>, TRUE)>>
  /\ tasks = CtorTasks(2, <<"A">>, TRUE)
  /\ sendLog = <<>>
  /\ seenLog = <<>>
  /\ links = <<>>
  /\ listeners = <<>>
  /\ InitTime

PairInputs == {Obj("t1", "A", "x"), Obj("t1", "A", "y"), Obj("t2", "A", "y")}

NextPair ==
  \/ \E t \in tasks : ResumeGetSecret(t)
  \/ \E t \in tasks : ResumeWork(t)
  \/ \E t \in tasks : ResumeEncrypt(t)
  \/ \E m \in PairInputs : Len(sendLog) < MaxPairSends /\ Send(1, m, "t1")
  \/ \E s \in chats[2].subs, k \in MsgKeys : Deliver(2, s, k)

SpecPair == InitPair /\ [][NextPair]_vars

\* ------------------------------------- one Conversation, its secret cache
\* A constructs a Conversation that lists B twice
InitSecret ==
  /\ gun = Put(Put(<<>>, EpubPath("A"), Epub("A")), EpubPath("B"), Epub("B"))
  /\ chats = <<CtorChat("A", <<"B", "B">>, FALSE)>>
  /\ tasks = CtorTasks(1, <<"B", "B">>, TRUE)
  /\ sendLog = <<>>
  /\ seenLog = <<>>
  /\ links = <<>>
  /\ listeners = <<>>
  /\ InitTime

\* the derivations run in any order while B is added again
NextSecret ==
  \/ \E t \in tasks : ResumeGetSecret(t)
  \/ \E t \in tasks : ResumeWork(t)
  \/ \E t \in tasks : ResumeEncrypt(t)
  \/ chats[1].adds < MaxAdds /\ AddPub(1, "B")

SpecSecret == InitSecret /\ [][NextSecret]_vars

\* --------------------------------------- two parties, garbage in channels
\* A and B hold completed Conversations with each other, A's with an
\* onMessage callback
InitGarbage ==
  /\ gun = SettledStore(SettledStore(
              Put(Put(<<>>, EpubPath("A"), Epub("A")), EpubPath("B"), Epub("B")),
              "A", "B"), "B", "A")
  /\ chats = <<[SettledChat("A", "B") EXCEPT !.onMessage = TRUE], SettledChat("B", "A")>>
  /\ tasks = {}
  /\ sendLog = <<>>
  /\ seenLog = <<>>
  /\ links = <<>>
  /\ listeners = <<>>
  /\ InitTime

\* B and A send valid messages, A watches its latest-message slot, and
\* garbage lands in B's message channel and in A's latest-message slot
NextGarbage ==
  \/ \E t \in tasks : ResumeEncrypt(t)
  \/ GetLatestMsg(1)
  \/ \E c \in {1, 2} :
       /\ Len(sendLog) < MaxValid
       /\ tasks = {} /\ chats[1].pending = {}
       /\ Send(c, Obj(IF sendLog = <<>> THEN "t1" ELSE "t2", chats[c].key, "x"), "t1")
  \/ \E k \in GarbageKeys, d \in Garbage(SEAsecret(Epub("B"), "A")) :
       LET path == MsgPath("B", chats[2].ourSecretChatIds["A"], k)
       IN path \notin DOMAIN gun /\ ForeignWrite(path, d)
  \/ \E d \in Garbage(SEAsecret(Epub("B"), "A")) :
       LET path == LatestPath("A", chats[1].ourSecretChatIds["B"])
       IN /\ Get(gun, path) \notin Garbage(SEAsecret(Epub("B"), "A"))
          /\ chats[1].watch # {} /\ chats[1].pending = {}
          /\ ForeignWrite(path, d)
  \/ \E s \in chats[1].subs, k \in MsgKeys \cup GarbageKeys : Deliver(1, s, k)
  \/ \E e \in chats[1].pending : LatestDeliver(1, e)

SpecGarbage == InitGarbage /\ [][NextGarbage]_vars

\* ------------------------------------------- the owner accepts a request
\* A has created a link and listens to its chat requests, B has opened the
\* link and its request lies in the ephemeral namespace: the state SpecInvite
\* reaches when the exchange has run up to the owner's chatRequests listener
InitAccept ==
  LET e == Ephemeral
      sharedSecret == SEAsecret(Epub(e), e)
      encryptedSharedKey == SEAencrypt(KeyString(e), sharedSecret)
      ownerEncryptedSharedKey == SEAencrypt(KeyString(e), SEAsecret(Epub("A"), "A"))
      linkId == slice12(SEAwork(encryptedSharedKey))
      encryptedChatRequest == SEAencrypt(<<"B">>, sharedSecret)
      g1 == Put(Put(<<>>, EpubPath("A"), Epub("A")), EpubPath("B"), Epub("B"))
      g2 == Put(Put(Put(g1, RequestPath(e, <<"a">>), <<"1">>),
                    LinkPath("A", linkId, "encryptedSharedKey"), encryptedSharedKey),
                LinkPath("A", linkId, "ownerEncryptedSharedKey"), ownerEncryptedSharedKey)
  IN /\ gun = Put(g2, RequestPath(e, slice12(SEAwork(encryptedChatRequest))), encryptedChatRequest)
     /\ chats = <<[CtorChat("B", <<"A">>, FALSE) EXCEPT
                     !.linkSubs = {[owner |-> <<"A">>, linkId |-> linkId,
                                    sharedSecret |-> sharedSecret, fired |-> TRUE]}]>>
     /\ tasks = {}
     /\ sendLog = <<>>
     /\ seenLog = <<>>
     /\ links = <<formatChatLink(UrlRoot, <<"A">>, sharedSecret, linkId)>>
     /\ listeners = <<[key |-> "A", subscribe |-> TRUE,
                       chatLinks |-> <<linkId>>,
                       reported |-> <<[url |-> formatChatLink(UrlRoot, <<"A">>, sharedSecret, linkId),
                                       id |-> linkId]>>,
                       outer |-> {linkId},
                       inner |-> {[linkId |-> linkId, n |-> 1, fired |-> TRUE]},
                       replays |-> 0, again |-> 0,
                       requests |-> {[linkId |-> linkId, n |-> 1, sharedKey |-> e,
                                      sharedSecret |-> sharedSecret,
                                      chats |-> <<>>, log |-> <<>>]}]>>
     /\ InitTime

\* the listener is handed the requests, and the Conversations it constructs
\* run their derivations and saves
NextAccept ==
  \/ \E l \in 1..Len(listeners) : \E rs \in listeners[l].requests :
       \E k \in RequestIds(rs.sharedKey), v \in RequestValues(rs) : RequestFire(l, rs, k, v)
  \/ \E t \in tasks : ResumeRequest(t)
  \/ \E t \in tasks : ResumeGetSecret(t)
  \/ \E t \in tasks : ResumeWork(t)
  \/ \E t \in tasks : ResumeEncrypt(t)

SpecAccept == InitAccept /\ [][NextAccept]_vars

\* ------------------------------------------------- the owner's links
\* A creates a link, lists its links while the store hands them over once
\* or several times, and removes the link
NextLinks ==
  \/ CreateChatLink("A")
  \/ \E t \in tasks : ResumeLinkNamespace(t)
  \/ \E t \in tasks : ResumeLinkPublish(t)
  \/ \E b \in BOOLEAN : GetMyChatLinks("A", b)
  \/ \E l \in 1..Len(listeners), id \in LinkIds("A") : OuterFire(l, id)
  \/ \E l \in 1..Len(listeners), id \in LinkIds("A") : OuterReplay(l, id)
  \/ \E l \in 1..Len(listeners) : \E in \in listeners[l].inner : InnerFire(l, in)
  \/ \E l \in 1..Len(listeners) : \E in \in listeners[l].inner : InnerReplay(l, in)
  \/ \E t \in tasks : ResumeListed(t)
  \/ \E id \in LinkIds("A") : RemoveChatLink("A", id)

SpecLinks == InitInvite /\ [][NextLinks]_vars

\* ------------------------------------------------------------ deleteChat
\* the static derivation with the suffix of getTheirSecretChatId
StaticTheirSecretChatId(g, pub, pair) ==
  SEAwork(SEAsecret(Get(g, EpubPath(pub)), pair) \o <<pair>>)

\* static getOurSecretChatId(gun, pub, pair), lines 81-85
StaticOurSecretChatId(g, pub, pair) ==
  SEAwork(SEAsecret(Get(g, EpubPath(pub)), pair) \o <<pub>>)

\* deleteChat(gun, key, pub), lines 394-396: the call, suspended on the epub
\* lookup of the static getOurSecretChatId
DeleteChat(u, pub) ==
  /\ \A t \in tasks : ~(t.op = "delete" /\ t.keys = <<pub>> /\ t.id = <<u>>)
  /\ tasks' = tasks \cup {[Task("delete", 0, 1, <<pub>>, 1, "del_epub") EXCEPT !.id = <<u>>]}
  /\ UNCHANGED <<gun, chats, sendLog, seenLog, links, listeners, timeVars>>

\* .off() on chats/<id>, line 398: the listeners of the owner's store
\* instance on that node and below it are removed
Off(cs, u, id) ==
  [c \in DOMAIN cs |->
     IF cs[c].key # u THEN cs[c]
     ELSE [cs[c] EXCEPT
             !.subs = {x \in @ : ~(x.w = u /\ x.id = id)},
             !.watch = {x \in @ : SubSeq(x.path, 1, Len(ChatPath(u, id))) # ChatPath(u, id)},
             !.pending = {e \in @ : SubSeq(e.sub.path, 1, Len(ChatPath(u, id))) # ChatPath(u, id)}]]

\* deleteChat lines 396-398: the id is derived, the node put to null and
\* its listeners removed
ResumeDelete(t) ==
  /\ t.pc = "del_epub"
  /\ gunOnceDefined(gun, t.keys[1])
  /\ LET u == t.id[1]
         chatId == StaticOurSecretChatId(gun, t.keys[1], u)
     IN /\ gun' = Put(gun, ChatPath(u, chatId), Null)
        /\ chats' = Off(Notify(chats, gun, gun'), u, chatId)
  /\ tasks' = tasks \ {t}
  /\ UNCHANGED <<sendLog, seenLog, links, listeners, timeVars>>

\* the channels of u that have been put to null
Tombstones(u) ==
  {q \in DOMAIN gun : Len(q) = 7 /\ q[1] = u /\ q[2] = "chats" /\ gun[q] = Null}

\* A holds a Conversation with B and C, and B one with A
InitDelete ==
  /\ gun = SettledStore(Put(Put(Put(<<>>, EpubPath("A"), Epub("A")), EpubPath("B"), Epub("B")),
                            EpubPath("C"), Epub("C")), "B", "A")
  /\ chats = <<CtorChat("A", <<"B", "C">>, FALSE), SettledChat("B", "A")>>
  /\ tasks = CtorTasks(1, <<"B", "C">>, TRUE)
  /\ sendLog = <<>>
  /\ seenLog = <<>>
  /\ links = <<>>
  /\ listeners = <<>>
  /\ InitTime

\* the Conversation of A is set up and used while A deletes chats
NextDelete ==
  \/ \E t \in tasks : ResumeGetSecret(t)
  \/ \E t \in tasks : ResumeWork(t)
  \/ \E t \in tasks : ResumeEncrypt(t)
  \/ sendLog = <<>> /\ Send(1, Obj("t1", "A", "x"), "t1")
  \/ \E pub \in {"B", "C"} :
       /\ Cardinality(Tombstones("A")) + Cardinality({t \in tasks : t.op = "delete"}) < MaxDeletes
       /\ DeleteChat("A", pub)
  \/ \E t \in tasks : ResumeDelete(t)

SpecDelete == InitDelete /\ [][NextDelete]_vars

\* ------------------------------------------------- formatting a link
\* the characters of roots and fields: two plain ones and the reserved ones
LinkAlphabet == {"B", "2", "&", "=", "?", "%"}

\* the strings of at most n characters
StringsOf(n) == UNION {[1..m -> LinkAlphabet] : m \in 0..n}

UrlRoots == {UrlRoot, <<"https://x/">>, <<"https://x/", "?", "v", "=", "2">>, <<"https://x/", "&">>}

\* Chat.formatChatLink(urlRoot, pub, sharedSecret, linkId) called directly,
\* line 317; the URL is handed out like one of createChatLink
FormatChatLink(urlRoot, pub, sharedSecret, linkId) ==
  /\ formatted = <<>>
  /\ LET url == formatChatLink(urlRoot, pub, sharedSecret, linkId)
     IN /\ formatted' = <<[urlRoot |-> urlRoot, pub |-> pub, sharedSecret |-> sharedSecret,
                           linkId |-> linkId, url |-> url]>>
        /\ links' = Append(links, url)
  /\ UNCHANGED <<gun, chats, tasks, sendLog, seenLog, listeners, clock, heart, observers, listings>>

InitFormat ==
  /\ gun = Put(<<>>, EpubPath("B"), Epub("B"))
  /\ chats = <<>>
  /\ tasks = {}
  /\ sendLog = <<>>
  /\ seenLog = <<>>
  /\ links = <<>>
  /\ listeners = <<>>
  /\ InitTime

\* a link is formatted from any root and fields, and A opens it
NextFormat ==
  \/ /\ formatted = <<>>
     /\ \E urlRoot \in UrlRoots : \E pub \in StringsOf(MaxLinkLen) :
          \E sharedSecret \in StringsOf(MaxLinkLen - Len(pub)) :
            \E linkId \in StringsOf(MaxLinkLen - Len(pub) - Len(sharedSecret)) :
              FormatChatLink(urlRoot, pub, sharedSecret, linkId)
  \/ \E i \in 1..Len(links) : chats = <<>> /\ NewChatFromLink("A", links[i], FALSE)

SpecFormat == InitFormat /\ [][NextFormat]_vars

\* ------------------------------------------- two parties, read receipts
\* both parties watch the receipts of A, then A publishes some
NextSeen ==
  \/ \E t \in tasks : ResumeGetSecret(t)
  \/ \E t \in tasks : ResumeWork(t)
  \/ \E t \in tasks : ResumeEncrypt(t)
  \/ GetMyMsgsLastSeenTime(1)
  \/ GetTheirMsgsLastSeenTime(2)
  \/ \E tm \in {NoVal, <<"t1">>, <<"t2">>} :
       /\ Len(seenLog) < MaxSeen
       /\ chats[1].watch # {} /\ chats[2].watch # {}
       /\ SetMyMsgsLastSeenTime(1, tm, "t3")
  \/ \E c \in 1..Len(chats) : \E e \in chats[c].pending : SeenDeliver(c, e)

SpecSeen == InitPair /\ [][NextSeen]_vars

\* --------------------------------------------------- channel ids only
InitIds ==
  /\ gun = <<>>
  /\ chats = <<>>
  /\ tasks = {}
  /\ sendLog = <<>>
  /\ seenLog = <<>>
  /\ links = <<>>
  /\ listeners = <<>>
  /\ InitTime

\* A and B construct Conversations with each other or with themselves
NextIds ==
  \/ \E u \in {"A", "B"}, p \in {"A", "B"} :
       /\ Len(chats) < MaxChats
       /\ \A c \in 1..Len(chats) : ~(chats[c].key = u /\ chats[c].keys = <<p>>)
       /\ NewChat(u, <<p>>, FALSE)
  \/ \E t \in tasks : ResumeGetSecret(t)
  \/ \E t \in tasks : ResumeWork(t)
  \/ \E t \in tasks : ResumeEncrypt(t)

SpecIds == InitIds /\ [][NextIds]_vars

\* ------------------------------------------------------------ properties
\* send n of Conversation c has performed its writes for participant keys[j]
Wrote(e, j) ==
  \A t \in tasks : (t.op = "send" /\ t.c = e.c /\ t.n = e.n) => t.i > j

SendsDone(c) == \A t \in tasks : ~(t.op = "send" /\ t.c = c)

DistinctTimes(c) ==
  \A i \in SendsOf(c), j \in SendsOf(c) :
    i # j => sendLog[i].msg.v[1] # sendLog[j].msg.v[1]

\* the outbound channel of Conversation c for its participant p
Channel(c, p) == OurSecretChatId(SEAsecret(Epub(p), chats[c].key), chats[c].key, p)

Shared(c, p) == SEAsecret(Epub(p), chats[c].key)

\* C5: while the messages passed to send have pairwise distinct time fields,
\* the slot msgs/<time> of every message whose write for a participant has
\* happened holds a ciphertext of that message
SlotsNeverOverwritten ==
  \A c \in 1..Len(chats) :
    DistinctTimes(c) =>
      \A i \in SendsOf(c), j \in 1..Len(chats[c].keys) :
        Wrote(sendLog[i], j) =>
          SEAdecrypt(Get(gun, MsgPath(chats[c].key, Channel(c, chats[c].keys[j]),
                                      sendLog[i].msg.v[1])),
                     Shared(c, chats[c].keys[j])) = sendLog[i].msg

\* two sends with distinct times have both completed
SlotsWitness ==
  /\ Len(sendLog) >= 2 /\ DistinctTimes(1) /\ SendsDone(1)
  /\ \E j \in 1..Len(chats[1].keys) :
       Get(gun, MsgPath(chats[1].key, Channel(1, chats[1].keys[j]), "t1")) # NoVal
       /\ Get(gun, MsgPath(chats[1].key, Channel(1, chats[1].keys[j]), "t2")) # NoVal

LastSend(c) == sendLog[CHOOSE i \in SendsOf(c) : \A j \in SendsOf(c) : j <= i]

\* C6: once every issued send has completed, the latestMsg slot of every
\* participant decrypts to the message of the send issued last
LatestIsLastSend ==
  \A c \in 1..Len(chats) :
    (SendsOf(c) # {} /\ SendsDone(c)) =>
      \A j \in 1..Len(chats[c].keys) :
        SEAdecrypt(Get(gun, LatestPath(chats[c].key, Channel(c, chats[c].keys[j]))),
                   Shared(c, chats[c].keys[j])) = LastSend(c).msg

\* a value is a ciphertext under secret
IsCipher(v, secret) == Len(v) > 4 /\ SubSeq(v, 1, 4) = <<"SEA">> \o secret

MySecret(u) == SEAsecret(Epub(u), u)

\* C7: every non-null value under chats/<id>/{msgs/<time>, latestMsg,
\* msgsLastSeenTime, pub} is a ciphertext: a message or read receipt under
\* the shared secret of the participant the channel belongs to, the
\* participant's key under the owner's own secret
StoredValuesEncrypted ==
  \A path \in DOMAIN gun :
    (Len(path) >= 8 /\ path[2] = "chats" /\ gun[path] # Null) =>
      \E c \in 1..Len(chats) : \E j \in 1..Len(chats[c].keys) :
        LET q == chats[c].keys[j] IN
        /\ chats[c].key = path[1]
        /\ SubSeq(path, 3, 7) = Channel(c, q)
        /\ path[8] \in {"msgs", "latestMsg", "msgsLastSeenTime", "pub"}
        /\ path[8] \in {"msgs", "latestMsg"} =>
             /\ IsCipher(gun[path], Shared(c, q))
             /\ \E i \in SendsOf(c) : SEAdecrypt(gun[path], Shared(c, q)) = sendLog[i].msg
        /\ path[8] = "msgsLastSeenTime" =>
             /\ IsCipher(gun[path], Shared(c, q))
             /\ \E i \in SeensOf(c) : SEAdecrypt(gun[path], Shared(c, q)) = Str(seenLog[i].time)
        /\ path[8] = "pub" =>
             /\ IsCipher(gun[path], MySecret(chats[c].key))
             /\ SEAdecrypt(gun[path], MySecret(chats[c].key)) = Str(q)

\* all four kinds of slot have been written
EncryptedWitness ==
  \E t \in Times :
    /\ Get(gun, MsgPath("A", Channel(1, "B"), t)) \notin {NoVal, Null}
    /\ Get(gun, LatestPath("A", Channel(1, "B"))) # NoVal
    /\ Get(gun, SeenPath("A", Channel(1, "B"))) # NoVal
    /\ Get(gun, PubPath("A", Channel(1, "B"))) # NoVal

\* no suspended call can resume: each waits for a key that is not published
Settled ==
  \A t \in tasks :
    t.pc \in {"secret", "our_secret", "their_secret"} /\ ~gunOnceDefined(gun, TPub(t))

SendReached(c, i, j) ==
  /\ Get(gun, MsgPath(chats[c].key, Channel(c, chats[c].keys[j]), sendLog[i].msg.v[1])) # NoVal
  /\ Get(gun, LatestPath(chats[c].key, Channel(c, chats[c].keys[j]))) # NoVal

\* C10 as stated: when nothing more can happen, every send has written both
\* slots for every participant whose encryption key is published
SendReachesEveryPublished ==
  Settled =>
    \A c \in 1..Len(chats) : \A i \in SendsOf(c), j \in 1..Len(chats[c].keys) :
      gunOnceDefined(gun, chats[c].keys[j]) => SendReached(c, i, j)

\* C10 amended: ... for every participant p such that p and every participant
\* before p in the order of Object.keys(this.secrets) has a published key
SendReachesPublishedPrefix ==
  Settled =>
    \A c \in 1..Len(chats) : \A i \in SendsOf(c), j \in 1..Len(chats[c].keys) :
      (\A k \in 1..j : gunOnceDefined(gun, chats[c].keys[k])) => SendReached(c, i, j)

\* B is written although C, listed after B, never published a key
SendReachesWitness ==
  /\ Settled /\ sendLog # <<>>
  /\ ~gunOnceDefined(gun, "C")
  /\ chats[1].keys = <<"B", "C">>
  /\ SendReached(1, 1, 1)

\* nothing is suspended and the store has nothing left to deliver to c
Quiet(c) ==
  /\ tasks = {}
  /\ \A s \in chats[c].subs, k \in MsgKeys :
       MsgPath(s.w, s.id, k) \in DOMAIN gun => [s |-> s, k |-> k] \in chats[c].fired

Received(c, m) == \E r \in chats[c].received : r.m = m /\ ~r.self

\* C1 as stated: every message A passed to send has reached B's onMessage
\* once everything has run
RoundTripEvery ==
  Quiet(2) => \A i \in SendsOf(1) : Received(2, sendLog[i].msg)

UniqueTime(i) ==
  \A j \in SendsOf(sendLog[i].c) : j # i => sendLog[j].msg.v[1] # sendLog[i].msg.v[1]

\* C1 amended: every message A passed to send whose time field no other
\* message of the Conversation shares has reached B's onMessage once
\* everything has run
RoundTripDistinctTimes ==
  Quiet(2) => \A i \in SendsOf(1) : UniqueTime(i) => Received(2, sendLog[i].msg)

RoundTripWitness ==
  /\ Quiet(2) /\ Len(sendLog) = 2
  /\ UniqueTime(1) /\ UniqueTime(2)
  /\ Received(2, sendLog[1].msg) /\ Received(2, sendLog[2].msg)

\* the Conversations of identity u with participant p
ChatsOf(u, p) == {c \in 1..Len(chats) : chats[c].key = u /\ InSeq(chats[c].keys, p)}

\* C3 as stated, its first half: for all identities A and B, A = B included,
\* the channel A writes to for B differs from the channel B writes to for A
DirectionalIdsAnyPair ==
  \A a \in Users, b \in Users : \A c \in ChatsOf(a, b), d \in ChatsOf(b, a) :
    (chats[c].ourSecretChatIds[b] # NoVal /\ chats[d].ourSecretChatIds[a] # NoVal)
       => chats[c].ourSecretChatIds[b] # chats[d].ourSecretChatIds[a]

\* C3 amended: for distinct identities A and B the channel A writes to for B differs
\* from the channel B writes to for A, and a cached id never changes, so
\* every call returns what the first call returned
DirectionalIds ==
  /\ [](\A a \in Users, b \in Users : \A c \in ChatsOf(a, b), d \in ChatsOf(b, a) :
          (a # b /\ chats[c].ourSecretChatIds[b] # NoVal /\ chats[d].ourSecretChatIds[a] # NoVal)
             => chats[c].ourSecretChatIds[b] # chats[d].ourSecretChatIds[a])
  /\ [][\A c \in 1..Len(chats) : \A p \in Users :
          /\ chats[c].ourSecretChatIds[p] # NoVal
               => chats'[c].ourSecretChatIds[p] = chats[c].ourSecretChatIds[p]
          /\ chats[c].theirSecretChatIds[p] # NoVal
               => chats'[c].theirSecretChatIds[p] = chats[c].theirSecretChatIds[p]]_vars

\* a Conversation whose constructor calls have completed is in the state
\* SettledChat, and has written what SettledStore writes
SettledAsComputed ==
  tasks = {} =>
    \A c \in 1..Len(chats) :
      /\ chats[c].key # chats[c].keys[1] => chats[c] = SettledChat(chats[c].key, chats[c].keys[1])
      /\ SettledStore(gun, chats[c].key, chats[c].keys[1]) = gun

\* both parties hold both ids, and no derivation is pending
IdsWitness ==
  /\ tasks = {}
  /\ \E c \in ChatsOf("A", "B"), d \in ChatsOf("B", "A") :
       /\ chats[c].ourSecretChatIds["B"] # NoVal /\ chats[c].theirSecretChatIds["B"] # NoVal
       /\ chats[d].ourSecretChatIds["A"] # NoVal /\ chats[d].theirSecretChatIds["A"] # NoVal

\* C4: the 'our' id A derives for B is the 'their' id B derives for A, and
\* the 'their' id A derives for B is the 'our' id B derives for A
IdsAgree ==
  \A a \in Users, b \in Users : \A c \in ChatsOf(a, b), d \in ChatsOf(b, a) :
    /\ (chats[c].ourSecretChatIds[b] # NoVal /\ chats[d].theirSecretChatIds[a] # NoVal)
         => chats[c].ourSecretChatIds[b] = chats[d].theirSecretChatIds[a]
    /\ (chats[c].theirSecretChatIds[b] # NoVal /\ chats[d].ourSecretChatIds[a] # NoVal)
         => chats[c].theirSecretChatIds[b] = chats[d].ourSecretChatIds[a]

\* A has derived 'our' and B 'their' for the same channel
IdsAgreeWitness ==
  \E c \in ChatsOf("A", "B"), d \in ChatsOf("B", "A") :
    /\ chats[c].ourSecretChatIds["B"] # NoVal /\ chats[d].theirSecretChatIds["A"] # NoVal
    /\ chats[c].theirSecretChatIds["B"] # NoVal /\ chats[d].ourSecretChatIds["A"] # NoVal

\* the Conversations the getMyChatLinks listener of o instantiated with
\* participant j
Instantiated(o, j) ==
  {c \in 1..Len(chats) : chats[c].key = o /\ chats[c].from # NoVal /\ chats[c].keys = <<j>>}

RequestSubs == UNION {listeners[l].requests : l \in 1..Len(listeners)}

\* the exchange has run: the link is published, the owner's listeners have
\* been handed it, the joiner's listener has fired, and every request value
\* in the store has been handed to the chatRequests listener and processed
InviteDone ==
  /\ links # <<>>
  /\ \E l \in 1..Len(listeners) :
       /\ listeners[l].subscribe
       /\ listeners[l].requests # {}
  /\ \E c \in 1..Len(chats) : chats[c].key = "B" /\ chats[c].linkSubs # {}
  /\ \A c \in 1..Len(chats) : \A ls \in chats[c].linkSubs : ls.fired
  /\ \A rs \in RequestSubs : \A k \in RequestIds(rs.sharedKey) :
       Count(rs, k, Get(gun, RequestPath(rs.sharedKey, k))) > 0
  /\ \A t \in tasks : t.op # "request"

\* C2: the owner's listener instantiates a Conversation with the joiner's key
\* at most once, whatever the store replays, and once the exchange has run
\* it has instantiated exactly one
InviteExactlyOnce ==
  /\ Cardinality(Instantiated("A", "B")) <= 1
  /\ InviteDone => Cardinality(Instantiated("A", "B")) = 1

\* the joiner's request value has been handed to the listener three times
InviteWitness ==
  /\ InviteDone
  /\ \E rs \in RequestSubs : \E i \in 1..Len(rs.log) :
       /\ SEAdecrypt(rs.log[i].v, rs.sharedSecret) = Str("B")
       /\ Count(rs, rs.log[i].k, rs.log[i].v) = 3
  /\ Cardinality(Instantiated("A", "B")) = 1

\* C8 as stated: whenever the joiner's subscription to encryptedSharedKey is
\* registered, the joiner's listing holds a node of the channel to the owner
PlaceholderBeforeSubscription ==
  \A c \in 1..Len(chats) : \A ls \in chats[c].linkSubs :
    \E path \in DOMAIN gun :
      /\ Len(path) >= 7 /\ path[1] = chats[c].key /\ path[2] = "chats"
      /\ SubSeq(path, 3, 7) = Channel(c, ls.owner[1])

\* C9: every non-null request the listener was handed is set to null in the
\* ephemeral namespace once its decryption is no longer pending, and no
\* Conversation was instantiated for a null request
RequestsTombstoned ==
  /\ \A rs \in RequestSubs : \A i \in 1..Len(rs.log) :
       rs.log[i].v # Null =>
         \/ \E t \in tasks : t.op = "request" /\ t.keys = rs.log[i].k
         \/ Get(gun, RequestPath(rs.sharedKey, rs.log[i].k)) = Null
  /\ \A c \in 1..Len(chats) : chats[c].from # Null

\* the joiner's request was handed over, processed and removed, and the
\* removal was handed to the listener too
TombstoneWitness ==
  \E rs \in RequestSubs : \E i \in 1..Len(rs.log) :
    /\ SEAdecrypt(rs.log[i].v, rs.sharedSecret) = Str("B")
    /\ Get(gun, RequestPath(rs.sharedKey, rs.log[i].k)) = Null
    /\ Count(rs, rs.log[i].k, Null) > 0
    /\ \A t \in tasks : t.op # "request"

\* a save of Conversation c has completed: none is pending and the sentinel
\* of every participant is written
SaveCompleted(c) ==
  /\ \A t \in tasks : ~(t.op = "save" /\ t.c = c)
  /\ chats[c].keys # <<>>
  /\ \A j \in 1..Len(chats[c].keys) :
       Get(gun, MsgPath(chats[c].key, Channel(c, chats[c].keys[j]), "a")) = Null

\* C11: a save() called once an earlier save of the Conversation has
\* completed leaves the store as it was
SaveIdempotent ==
  [][\A c \in 1..Len(chats) :
       (chats'[c].saves > chats[c].saves /\ SaveCompleted(c)) => gun' = gun]_vars

\* save has been called twice more after a completed save, with a message
\* sent and written
SaveWitness ==
  /\ chats[1].saves = 2 /\ SaveCompleted(1) /\ tasks = {}
  /\ Get(gun, LatestPath("A", Channel(1, "B"))) # NoVal

\* the listing of identity u holds a node of channel id
Listed(u, id) ==
  \E path \in DOMAIN gun :
    Len(path) > 7 /\ path[1] = u /\ path[2] = "chats" /\ SubSeq(path, 3, 7) = id

\* the getChats listener l has been handed every channel and waits for none
\* whose pub is there
ListingQuiet(l) ==
  /\ ChannelIds(listings[l].key) \subseteq listings[l].handed
  /\ \A id \in listings[l].waiting : ~gunOnceDefinedAt(gun, PubPath(listings[l].key, id))

\* C12: with no message sent, once nothing more can happen the listing holds
\* a node of the 'our' channel of every participant whose encryption key is
\* published, and every getChats listener has called back with that
\* participant
Discoverable ==
  Settled =>
    \A c \in 1..Len(chats) : \A j \in 1..Len(chats[c].keys) :
      LET q == chats[c].keys[j] IN
      gunOnceDefined(gun, q) =>
        /\ Listed(chats[c].key, Channel(c, q))
        /\ \A l \in 1..Len(listings) :
             (listings[l].key = chats[c].key /\ ListingQuiet(l))
               => InSeq(listings[l].called, Str(q))

\* getChats has called back with B and C, and no message was sent
DiscoverableWitness ==
  /\ Settled /\ sendLog = <<>> /\ listings # <<>>
  /\ ListingQuiet(1)
  /\ InSeq(listings[1].called, Str("B")) /\ InSeq(listings[1].called, Str("C"))

\* the last setOnline call in the log before position i
LastCallBefore(log, i) ==
  IF \E j \in CallsOf(log) : j < i
  THEN log[CHOOSE j \in CallsOf(log) : j < i /\ \A k \in CallsOf(log) : k < i => k <= j].ev
  ELSE "none"

\* C16: at most one heartbeat timer is set; one is set exactly when the last
\* setOnline call was an enable; an enable that follows an enable is not
\* followed by a write of its own
TimersNeverStack ==
  /\ Cardinality(heart.armed) <= 1
  /\ (heart.armed # {}) <=> (LastCallBefore(heart.log, Len(heart.log) + 1) = "enable")
  /\ \A i \in 1..Len(heart.log) :
       (heart.log[i].ev = "enable" /\ LastCallBefore(heart.log, i) = "enable")
         => ~(i < Len(heart.log) /\ heart.log[i + 1].by = "enable")

\* enable, enable, disable, and no timer is left
StackWitness ==
  /\ Len(heart.log) >= 4
  /\ \E i \in 2..Len(heart.log) :
       heart.log[i].ev = "enable" /\ LastCallBefore(heart.log, i) = "enable"
  /\ LastCallBefore(heart.log, Len(heart.log) + 1) = "disable"
  /\ heart.armed = {}

Writes(log) == {i \in 1..Len(log) : log[i].ev = "write"}

\* the writes of setOnline are those the timer prescribes: one with the
\* enable that sets the timer, one every 3 s after it while it is set, none
\* after a disable
WritesOnSchedule ==
  /\ \A i \in Writes(heart.log) :
       /\ LastCallBefore(heart.log, i) = "enable"
       /\ heart.log[i].by = "enable" => heart.log[i].at = heart.log[i].start
       /\ heart.log[i].by = "tick" =>
            /\ heart.log[i].at > heart.log[i].start
            /\ (heart.log[i].at - heart.log[i].start) % HeartbeatPeriod = 0
  /\ \A i \in 1..Len(heart.log) :
       (heart.log[i].ev = "enable" /\ LastCallBefore(heart.log, i) # "enable")
         => i < Len(heart.log) /\ heart.log[i + 1].by = "enable"
  /\ \A t \in heart.armed :
       /\ clock <= t.due /\ t.due <= clock + HeartbeatPeriod
       /\ Cardinality({i \in Writes(heart.log) : heart.log[i].id = t.id})
            = (t.due - t.start) \div HeartbeatPeriod

\* C17 as stated: every write of setOnline is the floor of the clock in
\* seconds, and the writes are on schedule
HeartbeatIsFloor ==
  /\ \A i \in Writes(heart.log) : heart.log[i].v = Floor(heart.log[i].at)
  /\ WritesOnSchedule

\* C17 amended: every write of setOnline is the clock in seconds rounded to
\* the nearest whole second, and the writes are on schedule
HeartbeatIsRound ==
  /\ \A i \in Writes(heart.log) :
       /\ heart.log[i].v = (heart.log[i].at + 500) \div 1000
       /\ Get(gun, LastActivePath("A")) # NoVal
  /\ heart.log # <<>> /\ heart.log[Len(heart.log)].ev = "write"
       => StrNum(Get(gun, LastActivePath("A"))) = heart.log[Len(heart.log)].v
  /\ WritesOnSchedule

\* enabled in the second half of a second, ticked twice, then disabled
HeartbeatWitness ==
  /\ \E i \in Writes(heart.log) :
       /\ heart.log[i].by = "tick"
       /\ heart.log[i].at = heart.log[i].start + 2 * HeartbeatPeriod
       /\ heart.log[i].v = Floor(heart.log[i].at) + 1
  /\ LastCallBefore(heart.log, Len(heart.log) + 1) = "disable"
  /\ clock > heart.log[Len(heart.log)].at

\* the invocations of observer o's callback by updates of the slot
UpdateCalls(o) == {observers[o].log[i] : i \in Updates(o)}

\* C13 as stated: an update with heartbeat T evaluated at second q reports
\* online exactly when q lies strictly inside (T - 10, T + 30)
PresenceWindowAsStated ==
  \A o \in 1..Len(observers) : \A e \in UpdateCalls(o) :
    LET T == e.lastActive
        q == (e.at + 500) \div 1000
    IN e.isOnline <=> (T - 10 < q /\ q < T + 30)

\* C13 amended: an update with heartbeat T evaluated at second q reports
\* online exactly when q lies strictly inside (T - 30, T + 10)
PresenceWindow ==
  \A o \in 1..Len(observers) : \A e \in UpdateCalls(o) :
    LET T == e.lastActive
        q == (e.at + 500) \div 1000
    IN e.isOnline <=> (T - 30 < q /\ q < T + 10)

\* one update inside the window of the code and outside the stated one, and
\* one the other way round
PresenceWindowWitness ==
  \E o \in 1..Len(observers) : \E e \in UpdateCalls(o), f \in UpdateCalls(o) :
    /\ e.isOnline /\ e.lastActive = ((e.at + 500) \div 1000) + 20
    /\ ~f.isOnline /\ f.lastActive + 20 <= (f.at + 500) \div 1000

OfflineWithinGrace ==
  \A o \in 1..Len(observers) :
    LET log == observers[o].log IN
    /\ Cardinality(observers[o].timers) <= 1
    /\ log # <<>> =>
         IF log[Len(log)].isOnline
         THEN \E t \in observers[o].timers :
                /\ t.due = log[Len(log)].at + 10000
                /\ clock <= t.due
                /\ t.lastActive = log[Len(log)].lastActive
         ELSE observers[o].timers = {}
    /\ \A i \in 1..Len(log) :
         log[i].synthetic =>
           /\ i > 1 /\ log[i - 1].isOnline
           /\ log[i].at = log[i - 1].at + 10000
           /\ log[i].lastActive = log[i - 1].lastActive
           /\ ~log[i].isOnline

\* online, a fresher update before the 10 s are over, and the offline
\* invocation 10 s after the fresher one
OfflineWitness ==
  \E o \in 1..Len(observers) :
    LET log == observers[o].log IN
    /\ Len(log) = 3
    /\ log[1].isOnline /\ log[2].isOnline /\ log[3].synthetic
    /\ log[2].at > log[1].at /\ log[2].at < log[1].at + 10000

\* the callback of kind registered on Conversation c was invoked with v for
\* participant p
Called(c, kind, v, p) ==
  \E i \in 1..Len(chats[c].calls) : chats[c].calls[i] = [kind |-> kind, v |-> v, pub |-> p]

\* no call is suspended and the store has handed over every update
WatchQuiet == tasks = {} /\ \A c \in 1..Len(chats) : chats[c].pending = {}

\* C18: once everything has run, for every setMyMsgsLastSeenTime(t) of A made
\* while the two observers stand, B's getTheirMsgsLastSeenTime callback was
\* invoked with (t, A) and A's getMyMsgsLastSeenTime callback with t
ReceiptsDelivered ==
  WatchQuiet =>
    \A i \in SeensOf(1) :
      /\ Called(2, "getTheir", Str(seenLog[i].time), "A")
      /\ Called(1, "getMy", Str(seenLog[i].time), "B")

\* two receipts with different times were published one after the other and
\* both were delivered to both observers
ReceiptsWitness ==
  /\ WatchQuiet /\ Len(seenLog) = 2
  /\ seenLog[1].time # seenLog[2].time
  /\ Called(2, "getTheir", Str(seenLog[1].time), "A")
  /\ Called(2, "getTheir", Str(seenLog[2].time), "A")
  /\ Called(1, "getMy", Str(seenLog[2].time), "B")

\* C19 as stated: once the cached secret of a Conversation for p holds a
\* computed value it holds that value in every later state
SecretWriteOnce ==
  [][\A c \in 1..Len(chats) : \A p \in Users :
       chats[c].secrets[p] # NoVal => chats'[c].secrets[p] = chats[c].secrets[p]]_vars

\* C19 amended: a cached secret is only ever replaced by the empty value, in
\* a step that calls addPub for p, and then derived anew as the same value:
\* whenever no derivation is outstanding every participant's secret is cached
SecretNeverDiffers ==
  [][\A c \in 1..Len(chats) : \A p \in Users :
       /\ chats[c].secrets[p] # NoVal =>
            \/ chats'[c].secrets[p] = chats[c].secrets[p]
            \/ chats'[c].secrets[p] = NoVal /\ chats'[c].adds > chats[c].adds
       /\ chats'[c].secrets[p] # NoVal => chats'[c].secrets[p] = SEAsecret(Epub(p), chats[c].key)
       /\ (tasks' = {} /\ InSeq(chats'[c].keys, p)) => chats'[c].secrets[p] # NoVal]_vars

\* B was added again after its secret had been cached, and the secret is
\* cached again with every derivation finished
SecretWitness ==
  /\ chats[1].adds > 0 /\ tasks = {}
  /\ chats[1].secrets["B"] = SEAsecret(Epub("B"), "A")

\* C20 as stated: the onMessage callback and the getLatestMsg callback are
\* invoked only with structured objects; whatever else a payload decrypts to
\* is dropped
OnlyObjectsDelivered ==
  \A c \in 1..Len(chats) :
    /\ \A r \in chats[c].received : r.m.type = "object"
    /\ \A i \in 1..Len(chats[c].calls) :
         chats[c].calls[i].kind = "getLatest" => chats[c].calls[i].v.type = "object"

\* what the code does keep out: undecryptable data, strings and undefined
\* never reach the two callbacks
NoStringOrUndefinedDelivered ==
  \A c \in 1..Len(chats) :
    /\ \A r \in chats[c].received : r.m.type \in {"object", "null"}
    /\ \A i \in 1..Len(chats[c].calls) :
         chats[c].calls[i].kind = "getLatest" => chats[c].calls[i].v.type \in {"object", "null"}

\* the URL the format prescribes for a formatChatLink call
ExpectedUrl(f) ==
  f.urlRoot \o <<"?", "chatWith", "=">> \o encodeURIComponent(f.pub)
    \o <<"&", "s", "=">> \o encodeURIComponent(f.sharedSecret)
    \o <<"&", "k", "=">> \o encodeURIComponent(f.linkId)

\* the constructor reads back the three fields of the call from its URL
ParsesBack(f) ==
  LET parsed == ParseChatLink(f.url)
  IN /\ parsed.two
     /\ parsed.pub = f.pub /\ parsed.sharedSecret = f.sharedSecret /\ parsed.linkId = f.linkId

\* C21 as stated: for every root and every three fields the URL is the
\* prescribed one and parses back to the three fields
LinkRoundTripAnyRoot ==
  \A i \in 1..Len(formatted) : formatted[i].url = ExpectedUrl(formatted[i]) /\ ParsesBack(formatted[i])

\* C21 amended: the URL is always the prescribed one, and it parses back to
\* the three fields whenever the root holds no '?'
LinkRoundTrip ==
  \A i \in 1..Len(formatted) :
    /\ formatted[i].url = ExpectedUrl(formatted[i])
    /\ ~InSeq(formatted[i].urlRoot, "?") => ParsesBack(formatted[i])

\* a link whose three fields are reserved characters was formatted and A's
\* constructor subscribed to the link record under the fields it read back
LinkRoundTripWitness ==
  /\ Len(formatted) = 1 /\ Len(chats) = 1
  /\ formatted[1].pub = <<"B">> /\ formatted[1].sharedSecret = <<"&">> /\ formatted[1].linkId = <<"?">>
  /\ chats[1].keys = <<"B">>
  /\ \E ls \in chats[1].linkSubs :
       ls.owner = <<"B">> /\ ls.sharedSecret = <<"&">> /\ ls.linkId = <<"?">>

\* C22: the step that completes deleteChat(gun, key, pub) changes the store
\* in one place: it puts null at chats/<id> of the owner, where id is the id
\* a Conversation of that owner has cached for pub, equal to the static one
DeleteTargetsOwnChannel ==
  [][\A t \in tasks : (t.op = "delete" /\ t \notin tasks') =>
       \A c \in 1..Len(chats) :
         (chats[c].key = t.id[1] /\ chats[c].ourSecretChatIds[t.keys[1]] # NoVal) =>
           /\ StaticOurSecretChatId(gun, t.keys[1], t.id[1]) = chats[c].ourSecretChatIds[t.keys[1]]
           /\ gun' = Put(gun, ChatPath(t.id[1], chats[c].ourSecretChatIds[t.keys[1]]), Null)]_vars

\* A's channel for B, which the Conversation has written its listing entry
\* and a message to, is put to null; the channel for C and B's channel for A
\* are written and are not
DeleteWitness ==
  /\ tasks = {} /\ Len(sendLog) = 1
  /\ chats[1].ourSecretChatIds["B"] # NoVal /\ chats[1].ourSecretChatIds["C"] # NoVal
  /\ Get(gun, ChatPath("A", chats[1].ourSecretChatIds["B"])) = Null
  /\ Get(gun, MsgPath("A", chats[1].ourSecretChatIds["B"], "t1")) # NoVal
  /\ Get(gun, ChatPath("A", chats[1].ourSecretChatIds["C"])) = NoVal
  /\ Get(gun, PubPath("A", chats[1].ourSecretChatIds["C"])) # NoVal
  /\ Get(gun, ChatPath("B", chats[2].ourSecretChatIds["A"])) = NoVal

\* the Conversation has been persisted: the sentinel of save is in its
\* channel for every participant
Persisted(c) ==
  \A i \in 1..Len(chats[c].keys) :
    /\ chats[c].ourSecretChatIds[chats[c].keys[i]] # NoVal
    /\ Get(gun, MsgPath(chats[c].key, chats[c].ourSecretChatIds[chats[c].keys[i]], "a")) = Null

\* C23 as stated: in no state is the request of a joiner set to null in the
\* ephemeral namespace while the Conversation the owner constructed for that
\* joiner is not persisted
PersistedBeforeDeleted ==
  \A c \in 1..Len(chats) :
    (chats[c].from # NoVal /\ chats[c].keys # <<>>) =>
      \A rs \in RequestSubs :
        Get(gun, RequestPath(rs.sharedKey, slice12(SEAwork(chats[c].from)))) = Null
          => Persisted(c)

\* what does hold: once every call has run, the Conversation of a removed
\* request is persisted
PersistedInTheEnd ==
  tasks = {} =>
    \A c \in 1..Len(chats) :
      (chats[c].from # NoVal /\ chats[c].keys # <<>>) => Persisted(c)

\* the chatRequests node of the ephemeral keypair holds its placeholder slot
NamespaceExists == Get(gun, RequestPath(Ephemeral, <<"a">>)) # NoVal

\* C24: whenever a link record is in the owner's chatLinks the ephemeral
\* namespace exists, a returned URL has its record published, and a joiner
\* that was handed the record found the namespace
LinkAfterNamespace ==
  /\ LinkIds("A") # {} => NamespaceExists
  /\ links # <<>> => (LinkIds("A") # {} /\ NamespaceExists)
  /\ \A c \in 1..Len(chats) : \A ls \in chats[c].linkSubs : ls.fired => NamespaceExists

\* the URL was returned, a joiner opened it, was handed the record and put
\* its request into the namespace
LinkOrderWitness ==
  /\ links # <<>>
  /\ \E c \in 1..Len(chats) : \E ls \in chats[c].linkSubs : ls.fired
  /\ Cardinality(RequestIds(Ephemeral)) = 2

\* how often the callback of getMyChatLinks call l was passed link linkId
Reports(l, linkId) ==
  Cardinality({i \in 1..Len(listeners[l].reported) : listeners[l].reported[i].id = linkId})

\* everything the store has to hand to call l has been handed over and
\* every run of its listeners has finished
LinksQuiet(l) ==
  /\ \A t \in tasks : t.op \notin {"link", "listed"}
  /\ LinkIds(listeners[l].key) \subseteq listeners[l].outer
  /\ \A in \in listeners[l].inner : in.fired

\* a link is passed to the callback at most once, with its id and the URL
\* createChatLink returned, and has at most one chatRequests subscription;
\* a link that was never removed has been passed once when the call is quiet
\* and was handed the live record
ReportedOnce(l) ==
  /\ \A linkId \in LinkIds(listeners[l].key) :
       /\ Reports(l, linkId) <= 1
       /\ Cardinality({rs \in listeners[l].requests : rs.linkId = linkId}) <= 1
       /\ (LinksQuiet(l) /\ ~LinkRemoved(gun, listeners[l].key, linkId)
             /\ \E in \in listeners[l].inner : in.linkId = linkId)
            => Reports(l, linkId) = 1
  /\ \A i \in 1..Len(listeners[l].reported) :
       /\ InSeq(links, listeners[l].reported[i].url)
       /\ listeners[l].reported[i].id \in LinkIds(listeners[l].key)

KeyMissing(p) == Get(gun, EpubPath(p)) = NoVal

\* every call made on Conversation c, and every derivation its constructor
\* started, is suspended
AllSuspended(c) ==
  /\ \A i \in SendsOf(c) : \E t \in tasks : t.op = "send" /\ t.c = c /\ t.n = sendLog[i].n
  /\ \A i \in SeensOf(c) : \E t \in tasks : t.op = "seen" /\ t.c = c /\ t.n = seenLog[i].n
  /\ \A t \in CtorTasks(c, chats[c].keys, TRUE) :
       \E x \in tasks : x.op = t.op /\ x.c = c /\ x.n = t.n

\* the writes of Conversation c for participant p have been performed: the
\* listing entry and sentinel, every message, the latest message and, if a
\* receipt was published, the receipt
AllWritten(c, p) ==
  /\ chats[c].secrets[p] = Shared(c, p)
  /\ chats[c].ourSecretChatIds[p] = Channel(c, p)
  /\ SEAdecrypt(Get(gun, PubPath(chats[c].key, Channel(c, p))), MySecret(chats[c].key)) = Str(p)
  /\ Get(gun, MsgPath(chats[c].key, Channel(c, p), "a")) = Null
  /\ \A i \in SendsOf(c) :
       /\ Get(gun, MsgPath(chats[c].key, Channel(c, p), sendLog[i].msg.v[1])) # NoVal
       /\ \E j \in SendsOf(c) :
            SEAdecrypt(Get(gun, LatestPath(chats[c].key, Channel(c, p))), Shared(c, p)) = sendLog[j].msg
  /\ SeensOf(c) # {} =>
       \E j \in SeensOf(c) :
         SEAdecrypt(Get(gun, SeenPath(chats[c].key, Channel(c, p))), Shared(c, p)) = Str(seenLog[j].time)

\* C26: while participant B has published no encryption key, the secret and
\* the channel ids for B are not cached, the Conversation has written nothing
\* under its chats and every call is suspended; once the key is published
\* and every call has run, all the writes for B have been performed
MissingKeySuspends ==
  /\ KeyMissing("B") =>
       /\ chats[1].secrets["B"] = NoVal
       /\ chats[1].ourSecretChatIds["B"] = NoVal /\ chats[1].theirSecretChatIds["B"] = NoVal
       /\ \A q \in DOMAIN gun : ~(Len(q) >= 2 /\ q[1] = "A" /\ q[2] = "chats")
       /\ AllSuspended(1)
  /\ (~KeyMissing("B") /\ tasks = {}) => AllWritten(1, "B")

\* a message was sent and a receipt published while B's key is missing
MissingKeyWitness ==
  /\ KeyMissing("B")
  /\ Len(sendLog) = 1 /\ Len(seenLog) = 1
  /\ AllSuspended(1)

\* the same calls after the key was published: everything is written
MissingKeyResumed ==
  /\ ~KeyMissing("B") /\ tasks = {}
  /\ Len(sendLog) = 1 /\ Len(seenLog) = 1
  /\ AllWritten(1, "B")

====
